---------------------------- MODULE Spec2Model ----------------------------
(***************************************************************************)
(* A model of the muhasebe backend: the document lifecycle of              *)
(* routers/documents.py and routers/telegram.py, the ledger of             *)
(* routers/ledger.py and the vendor resolution of                          *)
(* services/vendor_matcher.py.                                             *)
(*                                                                         *)
(* Strings are sequences of one-character strings.  The letter s-cedilla   *)
(* of the Turkish suffix patterns is written "sc" (upper case "SC").       *)
(***************************************************************************)
EXTENDS Integers, Sequences, FiniteSets, TLC

None == "None"

\* NULL in a column that holds an id (ids are positions, from 1)
NoId == 0

(***************************************************************************)
(* Character classes of Python's re module and str.lower().                *)
(***************************************************************************)
UPPER == <<"A", "B", "C", "D", "E", "F", "G", "H", "I", "J", "K", "L", "M",
           "N", "O", "P", "Q", "R", "S", "T", "U", "V", "W", "X", "Y", "Z",
           "SC">>
LOWER == <<"a", "b", "c", "d", "e", "f", "g", "h", "i", "j", "k", "l", "m",
           "n", "o", "p", "q", "r", "s", "t", "u", "v", "w", "x", "y", "z",
           "sc">>
DIGITS == {"0", "1", "2", "3", "4", "5", "6", "7", "8", "9"}

Range(s) == {s[i] : i \in 1..Len(s)}

IsSpace(c) == c \in {" ", "\t", "\n"}
TURKISH_LETTERS == {"o-umlaut", "u-umlaut", "dotless-i", "dotted-I", "g-breve"}
IsWord(c) == c \in Range(UPPER) \cup Range(LOWER) \cup DIGITS \cup {"_"} \cup TURKISH_LETTERS

\* str.lower() on one character
lower_char(c) ==
    IF c \in Range(UPPER)
      THEN LOWER[CHOOSE i \in 1..Len(UPPER) : UPPER[i] = c]
      ELSE c

lower(s) == [i \in 1..Len(s) |-> lower_char(s[i])]

(***************************************************************************)
(* The regular expressions of SUFFIXES_TO_REMOVE.  A pattern is a sequence *)
(* of items: "ws" is \s*, "ch" a literal, "opt" a literal followed by ?,   *)
(* "grp" a trailing optional group (?:...)? holding a pattern, and "wb"    *)
(* the word boundary \b.                                                   *)
(***************************************************************************)
Ws == [t |-> "ws", c |-> "", g |-> <<>>]
Wb == [t |-> "wb", c |-> "", g |-> <<>>]
Ch(c) == [t |-> "ch", c |-> c, g |-> <<>>]
Opt(c) == [t |-> "opt", c |-> c, g |-> <<>>]
Grp(g) == [t |-> "grp", c |-> "", g |-> g]

LtdSti == <<Ch("l"), Ch("t"), Ch("d"), Opt("."), Ws,
            Ch("sc"), Ch("t"), Ch("i"), Opt(".")>>

SUFFIXES_TO_REMOVE ==
    << <<Ws>> \o LtdSti,
       <<Ws, Ch("a"), Opt("."), Ch("s"), Opt(".")>>,
       <<Ws, Ch("t"), Ch("i"), Ch("c"), Opt("."), Ws, Grp(LtdSti)>>,
       <<Ws, Ch("s"), Ch("a"), Ch("n"), Opt("."), Ws,
         Grp(<<Ch("t"), Ch("i"), Ch("c"), Opt(".")>>)>>,
       <<Ws, Ch("o"), Ch("r"), Ch("g"), Opt(".")>>,
       <<Ws, Ch("h"), Ch("o"), Ch("l"), Ch("d"), Ch("i"), Ch("n"), Ch("g")>>,
       <<Ws, Ch("g"), Ch("r"), Ch("o"), Ch("u"), Ch("p")>>,
       <<Ws, Ch("sc"), Ch("i"), Ch("r"), Ch("k"), Ch("e"), Ch("t"), Opt("i")>>,
       <<Ws, Ch("m"), Ch("a"), Ch("r"), Ch("k"), Ch("e"), Ch("t"), Opt("i")>> >>

\* The position after the longest run of whitespace starting at i.
RECURSIVE SkipSpace(_, _)
SkipSpace(s, i) ==
    IF i <= Len(s) /\ IsSpace(s[i]) THEN SkipSpace(s, i + 1) ELSE i

\* re.match of items k.. of pat at position i of s, greedy with backtracking:
\* the position after the match, or 0 when there is none.
RECURSIVE re_match(_, _, _, _)
RECURSIVE re_match_ws(_, _, _, _, _)
re_match(pat, k, s, i) ==
    IF k > Len(pat) THEN i
    ELSE LET it == pat[k] IN
      CASE it.t = "ws" -> re_match_ws(pat, k, s, i, SkipSpace(s, i))
        [] it.t = "ch" ->
             IF i <= Len(s) /\ s[i] = it.c
               THEN re_match(pat, k + 1, s, i + 1) ELSE 0
        [] it.t = "opt" ->
             LET taken == IF i <= Len(s) /\ s[i] = it.c
                            THEN re_match(pat, k + 1, s, i + 1) ELSE 0
             IN IF taken # 0 THEN taken ELSE re_match(pat, k + 1, s, i)
        [] it.t = "grp" ->
             LET taken == re_match(it.g, 1, s, i)
             IN IF taken # 0 THEN taken ELSE i
        [] it.t = "wb" ->
             LET before == i > 1 /\ i - 1 <= Len(s) /\ IsWord(s[i - 1])
                 after == i <= Len(s) /\ IsWord(s[i])
             IN IF before # after THEN re_match(pat, k + 1, s, i) ELSE 0

re_match_ws(pat, k, s, i, j) ==
    LET r == re_match(pat, k + 1, s, j)
    IN IF r # 0 THEN r
       ELSE IF j > i THEN re_match_ws(pat, k, s, i, j - 1) ELSE 0

\* re.sub(pat, '', s): the leftmost non-overlapping matches are removed.
RECURSIVE re_sub_from(_, _, _)
re_sub_from(pat, s, i) ==
    IF i > Len(s) THEN <<>>
    ELSE LET e == re_match(pat, 1, s, i)
         IN IF e # 0 /\ e > i THEN re_sub_from(pat, s, e)
            ELSE <<s[i]>> \o re_sub_from(pat, s, i + 1)

re_sub(pat, s) == re_sub_from(pat, s, 1)

RECURSIVE remove_suffixes(_, _)
remove_suffixes(s, k) ==
    IF k > Len(SUFFIXES_TO_REMOVE) THEN s
    ELSE remove_suffixes(re_sub(SUFFIXES_TO_REMOVE[k], s), k + 1)

\* re.sub(r'[^\w\s]', '', s)
remove_punctuation(s) == SelectSeq(s, LAMBDA c : IsWord(c) \/ IsSpace(c))

\* ' '.join(s.split())
RECURSIVE collapse_whitespace(_)
collapse_whitespace(s) ==
    LET i == SkipSpace(s, 1)
        RECURSIVE word_end(_)
        word_end(j) == IF j <= Len(s) /\ ~IsSpace(s[j]) THEN word_end(j + 1) ELSE j
    IN IF i > Len(s) THEN <<>>
       ELSE LET e == word_end(i)
                rest == collapse_whitespace(SubSeq(s, e, Len(s)))
            IN SubSeq(s, i, e - 1) \o (IF rest = <<>> THEN <<>> ELSE <<" ">> \o rest)

\* VendorMatcher.normalize_name
normalize_name(name) ==
    IF name = <<>> THEN <<>>
    ELSE collapse_whitespace(remove_punctuation(remove_suffixes(lower(name), 1)))

(***************************************************************************)
(* normalize_name of routers/vendors.py: one pattern of five alternatives  *)
(* between word boundaries, matched case-sensitively.  Its last            *)
(* alternative holds the two characters "A-ring" and "Y-diaeresis" where   *)
(* the matcher's pattern has s-cedilla.                                    *)
(***************************************************************************)
ROUTER_SUFFIXES ==
    << <<Wb, Ch("l"), Ch("t"), Ch("d"), Wb>>,
       <<Wb, Ch("a"), Opt("."), Ch("s"), Opt("."), Wb>>,
       <<Wb, Ch("t"), Ch("i"), Ch("c"), Opt("."), Wb>>,
       <<Wb, Ch("s"), Ch("a"), Ch("n"), Opt("."), Wb>>,
       <<Wb, Ch("l"), Ch("t"), Ch("d"), Opt("."), Ws,
         Ch("A-ring"), Ch("Y-diaeresis"), Ch("t"), Ch("i"), Opt("."), Wb>> >>

\* The end of the match of the first alternative that matches at i, or 0.
RECURSIVE match_alternatives(_, _, _, _)
match_alternatives(alts, k, s, i) ==
    IF k > Len(alts) THEN 0
    ELSE LET e == re_match(alts[k], 1, s, i)
         IN IF e # 0 THEN e ELSE match_alternatives(alts, k + 1, s, i)

\* re.sub(pattern, '', s) for a pattern of alternatives
RECURSIVE re_sub_alternatives(_, _, _)
re_sub_alternatives(alts, s, i) ==
    IF i > Len(s) THEN <<>>
    ELSE LET e == match_alternatives(alts, 1, s, i)
         IN IF e # 0 /\ e > i THEN re_sub_alternatives(alts, s, e)
            ELSE <<s[i]>> \o re_sub_alternatives(alts, s, i + 1)

\* routers/vendors.py normalize_name
router_normalize_name(name) ==
    collapse_whitespace(remove_punctuation(re_sub_alternatives(ROUTER_SUFFIXES, lower(name), 1)))


(***************************************************************************)
(* difflib.SequenceMatcher(None, a, b).ratio() for strings shorter than    *)
(* 200 characters (no junk, no popular-element heuristic).  Positions are  *)
(* 1-based and the ranges alo..ahi, blo..bhi are inclusive.                *)
(***************************************************************************)
Max(S) == CHOOSE x \in S : \A y \in S : y <= x
Min(S) == CHOOSE x \in S : \A y \in S : x <= y

\* The length of the longest common run of a from i and b from j.
RECURSIVE common_prefix(_, _, _, _, _, _)
common_prefix(a, i, ahi, b, j, bhi) ==
    IF i <= ahi /\ j <= bhi /\ a[i] = b[j]
      THEN 1 + common_prefix(a, i + 1, ahi, b, j + 1, bhi)
      ELSE 0

\* SequenceMatcher.find_longest_match: the longest block, the earliest in a
\* and among those the earliest in b; <<i, j, size>>.
find_longest_match(a, alo, ahi, b, blo, bhi) ==
    LET size(i, j) == common_prefix(a, i, ahi, b, j, bhi)
        pairs == (alo..ahi) \X (blo..bhi)
        best == IF pairs = {} THEN 0 ELSE Max({size(p[1], p[2]) : p \in pairs})
    IN IF best = 0 THEN <<alo, blo, 0>>
       ELSE LET besti == Min({p[1] : p \in {q \in pairs : size(q[1], q[2]) = best}})
                bestj == Min({j \in blo..bhi : size(besti, j) = best})
            IN <<besti, bestj, best>>

\* The total size of SequenceMatcher.get_matching_blocks.
RECURSIVE matching_size(_, _, _, _, _, _)
matching_size(a, alo, ahi, b, blo, bhi) ==
    IF alo > ahi \/ blo > bhi THEN 0
    ELSE LET m == find_longest_match(a, alo, ahi, b, blo, bhi)
         IN IF m[3] = 0 THEN 0
            ELSE m[3]
                 + matching_size(a, alo, m[1] - 1, b, blo, m[2] - 1)
                 + matching_size(a, m[1] + m[3], ahi, b, m[2] + m[3], bhi)

\* VendorMatcher.calculate_similarity: the ratio as the fraction num/den.
calculate_similarity(s1, s2) ==
    IF s1 = <<>> \/ s2 = <<>> THEN [num |-> 0, den |-> 1]
    ELSE [num |-> 2 * matching_size(s1, 1, Len(s1), s2, 1, Len(s2)),
          den |-> Len(s1) + Len(s2)]

Greater(x, y) == x.num * y.den > y.num * x.den

\* FUZZY_THRESHOLD = 0.7, in hundredths
FUZZY_THRESHOLD == 70

\* round(score, 2) in hundredths: to the nearest, a tie to the even one.
round2(x) ==
    LET q == (100 * x.num) \div x.den
        r == (100 * x.num) % x.den
    IN IF 2 * r > x.den \/ (2 * r = x.den /\ q % 2 = 1) THEN q + 1 ELSE q

(***************************************************************************)
(* The vendor catalog: the vendors table in insertion order, a vendor's id *)
(* being its position, each vendor carrying its vendor_aliases rows.       *)
(* Queries are modelled by their SQL meaning.                              *)
(***************************************************************************)
VendorIds(vs) == 1..Len(vs)

\* An absent name (None, which the code treats as the empty string)
NoName == <<>>

\* VendorMatch, had is_new been left at its default
VendorMatch_AlwaysNew(vendor_id, vendor_name, match_type, confidence, is_new) ==
    [vendor_id |-> vendor_id, vendor_name |-> vendor_name,
     match_type |-> match_type, confidence |-> confidence, is_new |-> TRUE,
     error |-> None]

\* VendorMatch, confidence in hundredths; error is None when find_match
\* returns it
VendorMatch(vendor_id, vendor_name, match_type, confidence, is_new) ==
    [vendor_id |-> vendor_id, vendor_name |-> vendor_name,
     match_type |-> match_type, confidence |-> confidence, is_new |-> is_new,
     error |-> None]

\* scalar_one_or_none finds several rows: find_match raises
MultipleResultsFound ==
    [vendor_id |-> NoId, vendor_name |-> NoName, match_type |-> None,
     confidence |-> 0, is_new |-> TRUE, error |-> "MultipleResultsFound"]

\* The vendor ids, one per row, of select(Vendor).join(VendorAlias) where the
\* alias is the normalized name.
alias_rows(vs, user_id, normalized) ==
    {<<v, k>> \in UNION {{<<v, k>> : k \in 1..Len(vs[v].aliases)} : v \in VendorIds(vs)} :
        /\ vs[v].user_id = user_id
        /\ vs[v].aliases[k].normalized_alias = normalized}

\* The fuzzy tier's loop over all_vendors from vendor v on, best being
\* <<best_match, best_score>>.
RECURSIVE fuzzy_scan(_, _, _, _, _)
RECURSIVE fuzzy_aliases(_, _, _, _, _)
fuzzy_aliases(normalized, aliases, k, v, best) ==
    IF k > Len(aliases) THEN best
    ELSE LET alias_score == calculate_similarity(normalized, aliases[k].normalized_alias)
         IN fuzzy_aliases(normalized, aliases, k + 1, v,
                          IF Greater(alias_score, best[2]) THEN <<v, alias_score>> ELSE best)

fuzzy_scan(vs, user_id, normalized, v, best) ==
    IF v > Len(vs) THEN best
    ELSE IF vs[v].user_id # user_id THEN fuzzy_scan(vs, user_id, normalized, v + 1, best)
    ELSE LET score == calculate_similarity(normalized, vs[v].normalized_name)
             b1 == IF Greater(score, best[2]) THEN <<v, score>> ELSE best
         IN fuzzy_scan(vs, user_id, normalized, v + 1,
                       fuzzy_aliases(normalized, vs[v].aliases, 1, v, b1))

\* The name tiers of find_match (exact, alias, fuzzy, none).
find_match_by_name(vs, user_id, vendor_name) ==
    LET normalized == normalize_name(vendor_name)
        exact == {v \in VendorIds(vs) :
                    vs[v].user_id = user_id /\ vs[v].normalized_name = normalized}
        alias == alias_rows(vs, user_id, normalized)
        best == fuzzy_scan(vs, user_id, normalized, 1, <<NoId, [num |-> 0, den |-> 1]>>)
    IN IF Cardinality(exact) > 1 THEN MultipleResultsFound
       ELSE IF exact # {} THEN
         LET v == CHOOSE x \in exact : TRUE
         IN VendorMatch(v, vs[v].display_name, "exact", 95, FALSE)
       ELSE IF Cardinality(alias) > 1 THEN MultipleResultsFound
       ELSE IF alias # {} THEN
         LET v == (CHOOSE x \in alias : TRUE)[1]
         IN VendorMatch(v, vs[v].display_name, "alias", 90, FALSE)
       ELSE IF best[1] # NoId /\ 100 * best[2].num >= FUZZY_THRESHOLD * best[2].den THEN
         VendorMatch(best[1], vs[best[1]].display_name, "fuzzy", round2(best[2]), FALSE)
       ELSE VendorMatch(NoId, vendor_name, None, 0, TRUE)

\* find_match_from_tckn, had the name tiers run without a name
find_match_from_tckn_NoNameCheck(vs, user_id, vendor_name, tckn) ==
    LET rows == {v \in VendorIds(vs) : vs[v].user_id = user_id /\ vs[v].tckn = tckn}
    IN IF tckn # None /\ Cardinality(rows) > 1 THEN MultipleResultsFound
       ELSE IF tckn # None /\ rows # {} THEN
         LET v == CHOOSE x \in rows : TRUE
         IN VendorMatch(v, vs[v].display_name, "tckn", 100, FALSE)
       ELSE find_match_by_name(vs, user_id, vendor_name)

\* The TCKN tier of find_match and what follows it.
find_match_from_tckn(vs, user_id, vendor_name, tckn) ==
    LET rows == {v \in VendorIds(vs) : vs[v].user_id = user_id /\ vs[v].tckn = tckn}
    IN IF tckn # None /\ Cardinality(rows) > 1 THEN MultipleResultsFound
       ELSE IF tckn # None /\ rows # {} THEN
         LET v == CHOOSE x \in rows : TRUE
         IN VendorMatch(v, vs[v].display_name, "tckn", 100, FALSE)
       ELSE IF vendor_name = NoName THEN
         VendorMatch(NoId, NoName, None, 0, TRUE)
       ELSE find_match_by_name(vs, user_id, vendor_name)

\* find_match, had the name been tried before the tax ids
find_match_NameFirst(vs, user_id, vendor_name, vkn, tckn) ==
    LET rows == {v \in VendorIds(vs) : vs[v].user_id = user_id /\ vs[v].vkn = vkn}
        by_name == find_match_by_name(vs, user_id, vendor_name)
    IN IF vendor_name # NoName /\ ~by_name.is_new THEN by_name
       ELSE IF vkn # None /\ Cardinality(rows) > 1 THEN MultipleResultsFound
       ELSE IF vkn # None /\ rows # {} THEN
         LET v == CHOOSE x \in rows : TRUE
         IN VendorMatch(v, vs[v].display_name, "vkn", 100, FALSE)
       ELSE find_match_from_tckn(vs, user_id, vendor_name, tckn)

\* VendorMatcher.find_match
find_match(vs, user_id, vendor_name, vkn, tckn) ==
    LET rows == {v \in VendorIds(vs) : vs[v].user_id = user_id /\ vs[v].vkn = vkn}
    IN IF vkn # None /\ Cardinality(rows) > 1 THEN MultipleResultsFound
       ELSE IF vkn # None /\ rows # {} THEN
         LET v == CHOOSE x \in rows : TRUE
         IN VendorMatch(v, vs[v].display_name, "vkn", 100, FALSE)
       ELSE find_match_from_tckn(vs, user_id, vendor_name, tckn)

(***************************************************************************)
(* The persisted state and the request handlers.                           *)
(***************************************************************************)
\* DocumentStatus
DRAFT == "draft"
POSTED == "posted"
CANCELLED == "cancelled"

\* The user id every HTTP endpoint uses, and the id of a Telegram user.
DEFAULT_USER_ID == "00000000-0000-0000-0000-000000000001"
TG_USER_ID == "telegram-user"

MaxDocs == 2
MaxEntries == 2
NumProcs == 2
MaxRequests == 3

Procs == 1..NumProcs
DocIds == 1..MaxDocs

VARIABLES
    documents,      \* the documents table; a document's id is its position
    ledger_entries, \* the ledger_entries table, a set of rows
    entry_seq,      \* how many ledger entries were ever inserted
    vendors,        \* the vendors table with each vendor's aliases
    session,        \* per request handler: where it is and what it will flush
    response,       \* the last answer a handler gave, and to which request
    requests,       \* how many requests were received
    call,           \* a call of a service function: its arguments and result
    processed_updates, \* routers/telegram.py _processed_updates, oldest first
    rate_limiter    \* middleware/rate_limiter.py: the windows of one client key

vars == <<documents, ledger_entries, entry_seq, vendors, session, response, requests,
         call, processed_updates, rate_limiter>>

Idle == [pc |-> "idle", op |-> None, document_id |-> NoId,
         seen_status |-> None, dirty |-> <<>>]

Response(op, document_id, code, match) ==
    [op |-> op, document_id |-> document_id, code |-> code, match |-> match]

NoMatch == [vendor_id |-> NoId, vendor_name |-> NoName, match_type |-> None,
            confidence |-> 0, is_new |-> TRUE, error |-> None]

NoResponse == Response(None, NoId, None, NoMatch)

\* RateLimiter.__init__: the three windows of a key, each an empty list
RateLimiter == [second_windows |-> <<>>, minute_windows |-> <<>>, hour_windows |-> <<>>]

\* No service function is being called.
NoCall == [fn |-> None]

\* The columns a handler assigned whose value differs from the loaded one:
\* what the session's flush writes.
Dirty(loaded, assigned) ==
    [f \in {g \in DOMAIN assigned : assigned[g] # loaded[g]} |-> assigned[f]]

\* The UPDATE of a flush: only the dirty columns are written.
Merge(row, dirty) ==
    [f \in DOMAIN row |-> IF f \in DOMAIN dirty THEN dirty[f] ELSE row[f]]

\* The constraints of the documents table that a flush can violate: the
\* foreign key of vendor_id and NOT NULL of status.
DocumentConstraints(row) ==
    /\ row.vendor_id \in VendorIds(vendors) \cup {NoId}
    /\ row.status # None

\* db.commit() of a handler that loaded a document and assigned to it.
Commit(p, op) ==
    /\ session[p].pc = "commit"
    /\ session[p].op = op
    /\ LET d == session[p].document_id
           row == Merge(documents[d], session[p].dirty)
       IN IF DocumentConstraints(row)
            THEN /\ documents' = [documents EXCEPT ![d] = row]
                 /\ response' = Response(op, d, "ok", NoMatch)
            ELSE /\ documents' = documents
                 /\ response' = Response(op, d, "db_error", NoMatch)
    /\ session' = [session EXCEPT ![p] = Idle]
    /\ UNCHANGED <<ledger_entries, entry_seq, vendors, requests, call, processed_updates, rate_limiter>>

\* A handler starts on a request.
Start(p) ==
    /\ session[p].pc = "idle"
    /\ requests < MaxRequests
    /\ requests' = requests + 1

\* A handler receives a request that does not come through the webhook.
Receive(p) ==
    /\ Start(p)
    /\ UNCHANGED <<call, processed_updates, rate_limiter>>

\* A handler answers without touching the database.
Answer(p, op, d, code) ==
    /\ response' = Response(op, d, code, NoMatch)
    /\ UNCHANGED <<documents, ledger_entries, entry_seq, vendors, session>>

\* A handler has assigned to the loaded document d and goes on to commit.
Assign(p, op, d, assigned) ==
    /\ session' = [session EXCEPT ![p] =
                     [pc |-> "commit", op |-> op, document_id |-> d,
                      seen_status |-> documents[d].status,
                      dirty |-> Dirty(documents[d], assigned)]]
    /\ UNCHANGED <<documents, ledger_entries, entry_seq, vendors, response>>

(***************************************************************************)
(* routers/documents.py                                                    *)
(***************************************************************************)
\* new_document, had it never linked the matched vendor
new_document_NeverLinks(user_id, extraction, vendor_match) ==
    [user_id |-> user_id,
     vendor_id |-> NoId,
     status |-> DRAFT,
     doc_date |-> extraction.doc_date,
     total_gross |-> extraction.total_gross,
     total_tax |-> extraction.total_tax,
     total_net |-> extraction.total_net]

\* The Document that upload_document and process_photo build from the
\* extraction and the vendor match.
new_document(user_id, extraction, vendor_match) ==
    [user_id |-> user_id,
     vendor_id |-> IF ~vendor_match.is_new THEN vendor_match.vendor_id ELSE NoId,
     status |-> DRAFT,
     doc_date |-> extraction.doc_date,
     total_gross |-> extraction.total_gross,
     total_tax |-> extraction.total_tax,
     total_net |-> extraction.total_net]

\* db.add(document); db.commit() of a new draft, answered with the match.
insert_document(p, op, document, vendor_match) ==
    /\ documents' = Append(documents, document)
    /\ response' = Response(op, Len(documents) + 1, "ok", vendor_match)
    /\ UNCHANGED <<ledger_entries, entry_seq, vendors, session>>

\* POST /documents/upload of an accepted file whose text extracts to
\* `extraction`.
upload_document(p, extraction) ==
    /\ Receive(p)
    /\ Len(documents) < MaxDocs
    /\ LET vendor_match == find_match(vendors, DEFAULT_USER_ID, extraction.vendor_name,
                                      extraction.vendor_vkn, extraction.vendor_tckn)
       IN IF vendor_match.error # None
            THEN Answer(p, "upload", NoId, "error")
            ELSE insert_document(p, "upload",
                                 new_document(DEFAULT_USER_ID, extraction, vendor_match),
                                 vendor_match)

\* The values confirm_document assigns to the loaded document.
confirm_assignments(data) ==
    [vendor_id |-> data.vendor_id,
     doc_date |-> data.doc_date,
     total_gross |-> data.total_gross,
     total_tax |-> data.total_tax,
     status |-> POSTED]

\* confirm_document, had it not looked at the status
confirm_document_NoStatusCheck(p, d, data) ==
    /\ Receive(p)
    /\ IF d \notin 1..Len(documents) THEN Answer(p, "confirm", d, "not_found")
       ELSE Assign(p, "confirm", d, confirm_assignments(data))

\* POST /documents/{document_id}/confirm, up to db.commit()
confirm_document(p, d, data) ==
    /\ Receive(p)
    /\ IF d \notin 1..Len(documents) THEN Answer(p, "confirm", d, "not_found")
       ELSE IF documents[d].status # DRAFT THEN Answer(p, "confirm", d, "state_error")
       ELSE Assign(p, "confirm", d, confirm_assignments(data))

confirm_document_commit(p) == Commit(p, "confirm")

\* PATCH /documents/{document_id}, up to db.commit(); data is
\* model_dump(exclude_unset=True)
update_document(p, d, data) ==
    /\ Receive(p)
    /\ IF d \notin 1..Len(documents) THEN Answer(p, "update", d, "not_found")
       ELSE Assign(p, "update", d, data)

update_document_commit(p) == Commit(p, "update")

\* POST /documents/{document_id}/cancel, up to db.commit()
cancel_document(p, d) ==
    /\ Receive(p)
    /\ IF d \notin 1..Len(documents) THEN Answer(p, "cancel", d, "not_found")
       ELSE Assign(p, "cancel", d, [status |-> CANCELLED])

cancel_document_commit(p) == Commit(p, "cancel")

(***************************************************************************)
(* routers/telegram.py                                                     *)
(***************************************************************************)
\* process_photo of a downloaded photo whose text extracts to `extraction`;
\* find_match is called without the TCKN, and an exception is caught and
\* answered with a message.
photo_message(p, user_id, extraction) ==
    /\ Len(documents) < MaxDocs
    /\ LET vendor_match == find_match(vendors, user_id, extraction.vendor_name,
                                      extraction.vendor_vkn, None)
       IN IF vendor_match.error # None
            THEN Answer(p, "photo", NoId, "error")
            ELSE insert_document(p, "photo",
                                 new_document(user_id, extraction, vendor_match),
                                 vendor_match)

\* process_photo reached by an update that is no duplicate
process_photo(p, user_id, extraction) ==
    /\ Receive(p)
    /\ photo_message(p, user_id, extraction)

\* handle_callback, data "confirm:<d>", up to db.commit()
callback_confirm(p, d) ==
    IF d \in 1..Len(documents) /\ documents[d].status = DRAFT
      THEN Assign(p, "tg_confirm", d, [status |-> POSTED])
      ELSE Answer(p, "tg_confirm", d, "state_error")

\* handle_callback "confirm:<d>" reached by an update that is no duplicate
handle_callback_confirm(p, d) ==
    /\ Receive(p)
    /\ callback_confirm(p, d)

handle_callback_confirm_commit(p) == Commit(p, "tg_confirm")

\* handle_callback, data "cancel:<d>", up to db.commit()
callback_cancel(p, d) ==
    IF d \in 1..Len(documents)
      THEN Assign(p, "tg_cancel", d, [status |-> CANCELLED])
      ELSE Answer(p, "tg_cancel", d, "ignored")

\* handle_callback "cancel:<d>" reached by an update that is no duplicate
handle_callback_cancel(p, d) ==
    /\ Receive(p)
    /\ callback_cancel(p, d)

handle_callback_cancel_commit(p) == Commit(p, "tg_cancel")

(***************************************************************************)
(* routers/ledger.py                                                       *)
(***************************************************************************)
\* LedgerConstraints, had document_id not been declared unique
LedgerConstraints_NoUnique(entry) ==
    \/ entry.document_id = NoId
    \/ entry.document_id \in 1..Len(documents)

\* The constraints of the ledger_entries table an INSERT can violate: the
\* foreign key of document_id and its UNIQUE constraint (NULLs are distinct).
LedgerConstraints(entry) ==
    \/ entry.document_id = NoId
    \/ /\ entry.document_id \in 1..Len(documents)
       /\ \A e \in ledger_entries : e.document_id # entry.document_id

\* POST /ledger/entries
create_entry(p, data) ==
    /\ Receive(p)
    /\ entry_seq < MaxEntries
    /\ LET entry == [id |-> entry_seq + 1,
                     user_id |-> DEFAULT_USER_ID,
                     document_id |-> data.document_id,
                     amount |-> data.amount]
       IN IF LedgerConstraints(entry)
            THEN /\ ledger_entries' = ledger_entries \cup {entry}
                 /\ entry_seq' = entry_seq + 1
                 /\ response' = Response("create_entry", data.document_id, "ok", NoMatch)
                 /\ UNCHANGED <<documents, vendors, session>>
            ELSE Answer(p, "create_entry", data.document_id, "db_error")

\* DELETE /ledger/entries/{entry_id}
delete_entry(p, entry_id) ==
    /\ Receive(p)
    /\ IF \E e \in ledger_entries : e.id = entry_id
         THEN /\ ledger_entries' = {e \in ledger_entries : e.id # entry_id}
              /\ response' = Response("delete_entry", NoId, "ok", NoMatch)
              /\ UNCHANGED <<documents, entry_seq, vendors, session>>
         ELSE Answer(p, "delete_entry", NoId, "not_found")

(***************************************************************************)
(* The catalog the lifecycle runs against and the requests tried.          *)
(***************************************************************************)
Migros == <<"M", "i", "g", "r", "o", "s">>
MigrosAS == <<"M", "I", "G", "R", "O", "S", " ", "A", ".", "S", ".">>
MigrosJet == <<"M", "i", "g", "r", "o", "s", " ", "J", "e", "t">>
Migroz == <<"M", "i", "g", "r", "o", "z">>
A101 == <<"A", "1", "0", "1">>
Bim == <<"B", "i", "m">>
Kasap == <<"K", "a", "s", "a", "p">>

\* A catalog the program reaches: two vendors of seed.py (normalized_name is
\* display_name.lower()), an alias learned and two vendors created by
\* create_or_get_vendor, one of them for the Telegram user.
InitialVendors ==
    << [user_id |-> DEFAULT_USER_ID, display_name |-> Migros,
        normalized_name |-> lower(Migros), vkn |-> "1234567890", tckn |-> None,
        aliases |-> <<[alias |-> MigrosJet, normalized_alias |-> normalize_name(MigrosJet)]>>],
       [user_id |-> DEFAULT_USER_ID, display_name |-> A101,
        normalized_name |-> lower(A101), vkn |-> "1122334455", tckn |-> None,
        aliases |-> <<>>],
       [user_id |-> DEFAULT_USER_ID, display_name |-> Bim,
        normalized_name |-> normalize_name(Bim), vkn |-> None, tckn |-> "10000000146",
        aliases |-> <<>>],
       [user_id |-> TG_USER_ID, display_name |-> Migros,
        normalized_name |-> normalize_name(Migros), vkn |-> "1234567890", tckn |-> None,
        aliases |-> <<>>] >>

Extraction(vendor_name, vkn, tckn, doc_date, gross, tax, net) ==
    [vendor_name |-> vendor_name, vendor_vkn |-> vkn, vendor_tckn |-> tckn,
     doc_date |-> doc_date, total_gross |-> gross, total_tax |-> tax, total_net |-> net]

\* What extract returns for the uploaded receipts: one per resolution tier.
Extractions ==
    << Extraction(MigrosAS, None, None, "2026-01-15", "118.00", "18.00", "100.00"),
       Extraction(Migroz, "1122334455", None, None, None, None, None),
       Extraction(Kasap, None, "10000000146", "2026-01-15", "118.00", "18.00", "100.00"),
       Extraction(Kasap, None, None, "2026-01-15", "118.00", "18.00", "100.00") >>

\* DocumentConfirm bodies: a field the caller leaves out is None
ConfirmInputs ==
    << [vendor_id |-> NoId, doc_date |-> None, total_gross |-> None, total_tax |-> None],
       [vendor_id |-> 4, doc_date |-> None, total_gross |-> "120.00", total_tax |-> None] >>

\* DocumentUpdate bodies after model_dump(exclude_unset=True)
UpdateInputs ==
    << [total_gross |-> "120.00"],
       [vendor_id |-> 9],
       [status |-> DRAFT],
       [status |-> POSTED] >>

\* LedgerEntryCreate bodies
EntryInputs == [document_id : {NoId} \cup DocIds, amount : {"118.00"}]

Init ==
    /\ documents = <<>>
    /\ ledger_entries = {}
    /\ entry_seq = 0
    /\ vendors = InitialVendors
    /\ session = [p \in Procs |-> Idle]
    /\ response = NoResponse
    /\ requests = 0
    /\ processed_updates = <<>>
    /\ rate_limiter = RateLimiter
    /\ call = NoCall

Next ==
    \E p \in Procs :
        \/ \E i \in DOMAIN Extractions : upload_document(p, Extractions[i])
        \/ \E i \in DOMAIN Extractions : process_photo(p, TG_USER_ID, Extractions[i])
        \/ \E d \in DocIds, i \in DOMAIN ConfirmInputs :
              confirm_document(p, d, ConfirmInputs[i])
        \/ confirm_document_commit(p)
        \/ \E d \in DocIds, i \in DOMAIN UpdateInputs :
              update_document(p, d, UpdateInputs[i])
        \/ update_document_commit(p)
        \/ \E d \in DocIds : cancel_document(p, d)
        \/ cancel_document_commit(p)
        \/ \E d \in DocIds : handle_callback_confirm(p, d)
        \/ handle_callback_confirm_commit(p)
        \/ \E d \in DocIds : handle_callback_cancel(p, d)
        \/ handle_callback_cancel_commit(p)
        \/ \E data \in EntryInputs : create_entry(p, data)
        \/ \E e \in 1..MaxEntries : delete_entry(p, e)

Spec == Init /\ [][Next]_vars

(***************************************************************************)
(* The vendor catalog: routers/vendors.py and create_or_get_vendor.        *)
(***************************************************************************)
MaxVendors == 6

\* A vendors row without aliases
Vendor(user_id, display_name, normalized_name, vkn, tckn) ==
    [user_id |-> user_id, display_name |-> display_name,
     normalized_name |-> normalized_name, vkn |-> vkn, tckn |-> tckn,
     aliases |-> <<>>]

\* POST /vendors: the VKN check looks at the vendors of every user, and an
\* alias is built with vendor.id before the flush has assigned it, so its
\* INSERT violates NOT NULL and the commit fails.
create_vendor(p, data) ==
    /\ Receive(p)
    /\ Len(vendors) < MaxVendors
    /\ LET existing == {v \in VendorIds(vendors) : vendors[v].vkn = data.vkn}
       IN IF data.vkn # None /\ Cardinality(existing) > 1
            THEN Answer(p, "create_vendor", NoId, "error")
          ELSE IF data.vkn # None /\ existing # {}
            THEN Answer(p, "create_vendor", NoId, "duplicate_vkn")
          ELSE IF data.aliases # <<>>
            THEN Answer(p, "create_vendor", NoId, "db_error")
          ELSE /\ vendors' = Append(vendors,
                                    Vendor(DEFAULT_USER_ID, data.display_name,
                                           router_normalize_name(data.display_name),
                                           data.vkn, data.tckn))
               /\ response' = Response("create_vendor", NoId, "ok", NoMatch)
               /\ UNCHANGED <<documents, ledger_entries, entry_seq, session>>

\* The fields update_vendor assigns: those of the body, and normalized_name
\* when the body has display_name.
vendor_update_data(data) ==
    IF "display_name" \in DOMAIN data
      THEN [f \in DOMAIN data \cup {"normalized_name"} |->
              IF f = "normalized_name" THEN router_normalize_name(data.display_name)
              ELSE data[f]]
      ELSE data

\* PATCH /vendors/{vendor_id}
update_vendor(p, vendor_id, data) ==
    /\ Receive(p)
    /\ IF vendor_id \notin VendorIds(vendors)
         THEN Answer(p, "update_vendor", NoId, "not_found")
         ELSE /\ vendors' = [vendors EXCEPT ![vendor_id] = Merge(@, vendor_update_data(data))]
              /\ response' = Response("update_vendor", NoId, "ok", NoMatch)
              /\ UNCHANGED <<documents, ledger_entries, entry_seq, session>>

MaxAliases == 3

\* POST /vendors/{vendor_id}/aliases: the vendor is looked up by id alone and
\* the alias is added whatever aliases the vendor has.
add_vendor_alias(p, vendor_id, alias_name) ==
    /\ Receive(p)
    /\ IF vendor_id \notin VendorIds(vendors)
         THEN Answer(p, "add_vendor_alias", NoId, "not_found")
         ELSE /\ Len(vendors[vendor_id].aliases) < MaxAliases
              /\ vendors' = [vendors EXCEPT ![vendor_id].aliases =
                                Append(@, [alias |-> alias_name,
                                           normalized_alias |->
                                              router_normalize_name(alias_name)])]
              /\ response' = Response("add_vendor_alias", NoId, "ok", NoMatch)
              /\ UNCHANGED <<documents, ledger_entries, entry_seq, session>>

\* What create_or_get_vendor adds to its session: nothing, a new alias of the
\* matched vendor, or a new vendor.
Pending(vendor_id, add_alias_from, new_alias, new_vendor) ==
    [vendor_id |-> vendor_id, add_alias_from |-> add_alias_from,
     new_alias |-> new_alias, new_vendor |-> new_vendor]

\* create_or_get_vendor after find_match returned a vendor, had it not looked
\* at the aliases the vendor has
learn_alias_NoExistingCheck(vendor_id, add_alias_from) ==
    LET normalized_alias == normalize_name(add_alias_from)
    IN IF /\ add_alias_from # NoName
          /\ normalized_alias # vendors[vendor_id].normalized_name
         THEN Pending(vendor_id, add_alias_from,
                      <<[alias |-> add_alias_from, normalized_alias |-> normalized_alias]>>,
                      <<>>)
         ELSE Pending(vendor_id, add_alias_from, <<>>, <<>>)

\* create_or_get_vendor after find_match returned a vendor: "Learn new alias
\* if provided and different from existing"
learn_alias(vendor_id, add_alias_from) ==
    LET normalized_alias == normalize_name(add_alias_from)
        existing_aliases == {vendors[vendor_id].aliases[k].normalized_alias :
                               k \in 1..Len(vendors[vendor_id].aliases)}
    IN IF /\ add_alias_from # NoName
          /\ normalized_alias \notin existing_aliases
          /\ normalized_alias # vendors[vendor_id].normalized_name
         THEN Pending(vendor_id, add_alias_from,
                      <<[alias |-> add_alias_from, normalized_alias |-> normalized_alias]>>,
                      <<>>)
         ELSE Pending(vendor_id, add_alias_from, <<>>, <<>>)

\* create_or_get_vendor up to its return: find_match, then the alias or the
\* new vendor is added to the session, which the caller commits.
create_or_get_vendor(p, user_id, display_name, vkn, tckn, add_alias_from) ==
    /\ Receive(p)
    /\ Len(vendors) < MaxVendors
    /\ LET match == find_match(vendors, user_id, display_name, vkn, tckn)
           pending ==
             IF ~match.is_new /\ match.vendor_id # NoId
               THEN learn_alias(match.vendor_id, add_alias_from)
               ELSE Pending(NoId, add_alias_from, <<>>,
                            <<Vendor(user_id, display_name, normalize_name(display_name),
                                     vkn, tckn)>>)
       IN IF match.error # None
            THEN Answer(p, "create_or_get_vendor", NoId, "error")
            ELSE /\ session' = [session EXCEPT ![p] =
                                  [pc |-> "commit", op |-> "create_or_get_vendor",
                                   document_id |-> NoId, seen_status |-> None,
                                   dirty |-> pending]]
                 /\ UNCHANGED <<documents, ledger_entries, entry_seq, vendors, response>>

\* The caller's commit of what create_or_get_vendor added; neither table has
\* a constraint the INSERT could violate.
create_or_get_vendor_commit(p) ==
    /\ session[p].pc = "commit"
    /\ session[p].op = "create_or_get_vendor"
    /\ LET pending == session[p].dirty
       IN /\ vendors' =
               IF pending.new_vendor # <<>> THEN vendors \o pending.new_vendor
               ELSE IF pending.new_alias # <<>>
                 THEN [vendors EXCEPT ![pending.vendor_id].aliases = @ \o pending.new_alias]
               ELSE vendors
          /\ response' = Response("create_or_get_vendor", NoId,
                                  IF pending.new_vendor # <<>> THEN "created"
                                  ELSE IF pending.new_alias # <<>> THEN "alias_added"
                                  ELSE "found",
                                  NoMatch)
    /\ session' = [session EXCEPT ![p] = Idle]
    /\ UNCHANGED <<documents, ledger_entries, entry_seq, requests, call, processed_updates, rate_limiter>>

\* VendorCreate bodies
VendorCreateInputs ==
    << [display_name |-> Migros, vkn |-> None, tckn |-> None, aliases |-> <<>>],
       [display_name |-> Kasap, vkn |-> "1234567890", tckn |-> None, aliases |-> <<>>],
       [display_name |-> Kasap, vkn |-> None, tckn |-> None, aliases |-> <<Bim>>],
       [display_name |-> Kasap, vkn |-> None, tckn |-> None, aliases |-> <<>>] >>

\* VendorUpdate bodies after model_dump(exclude_unset=True)
VendorUpdateInputs ==
    << [display_name |-> A101],
       [vkn |-> "1234567890"] >>

\* The alias_name parameters of add_vendor_alias
VendorAliasInputs == <<Kasap>>

\* The calls of create_or_get_vendor: <<display_name, add_alias_from>>
CreateOrGetInputs ==
    << <<Kasap, NoName>>,
       <<Migros, Migroz>>,
       <<Migros, MigrosJet>>,
       <<Migros, MigrosAS>> >>

CatalogInit == Init

CatalogNext ==
    \E p \in Procs :
        \/ \E i \in DOMAIN VendorCreateInputs : create_vendor(p, VendorCreateInputs[i])
        \/ \E v \in 1..MaxVendors, i \in DOMAIN VendorUpdateInputs :
              update_vendor(p, v, VendorUpdateInputs[i])
        \/ \E v \in 1..MaxVendors, i \in DOMAIN VendorAliasInputs :
              add_vendor_alias(p, v, VendorAliasInputs[i])
        \/ \E i \in DOMAIN CreateOrGetInputs :
              create_or_get_vendor(p, DEFAULT_USER_ID, CreateOrGetInputs[i][1], None, None,
                                   CreateOrGetInputs[i][2])
        \/ create_or_get_vendor_commit(p)

CatalogSpec == CatalogInit /\ [][CatalogNext]_vars

(***************************************************************************)
(* Vendor resolution on its own: find_match called once on a catalog.      *)
(***************************************************************************)
MigrosJetJoined == <<"M", "i", "g", "r", "o", "s", "J", "e", "t">>
AS == <<"A", ".", "S", ".">>

\* Catalogs the program reaches: the empty one, the initial one, the initial
\* one after update_vendor gave A101 the VKN of Migros, after a second Migros
\* was created, and after a vendor was created whose name is only a suffix.
Catalogs ==
    << <<>>,
       InitialVendors,
       [InitialVendors EXCEPT ![2].vkn = "1234567890"],
       Append(InitialVendors,
              [user_id |-> DEFAULT_USER_ID, display_name |-> Migros,
               normalized_name |-> normalize_name(Migros), vkn |-> None, tckn |-> None,
               aliases |-> <<>>]),
       Append(InitialVendors,
              [user_id |-> DEFAULT_USER_ID, display_name |-> AS,
               normalized_name |-> normalize_name(AS), vkn |-> None, tckn |-> None,
               aliases |-> <<>>]) >>

\* The arguments find_match is called with
FindMatchCalls ==
    [fn : {"find_match"},
     user_id : {DEFAULT_USER_ID, TG_USER_ID},
     vendor_name : {NoName, Migros, MigrosAS, MigrosJet, MigrosJetJoined, Migroz,
                    A101, Bim, Kasap},
     vkn : {None, "1234567890", "1122334455", "9999999999"},
     tckn : {None, "10000000146", "99999999999"},
     done : {FALSE},
     result : {NoMatch}]

ResolveInit ==
    /\ documents = <<>>
    /\ ledger_entries = {}
    /\ entry_seq = 0
    /\ \E i \in DOMAIN Catalogs : vendors = Catalogs[i]
    /\ session = [p \in Procs |-> Idle]
    /\ response = NoResponse
    /\ requests = 0
    /\ processed_updates = <<>>
    /\ rate_limiter = RateLimiter
    /\ call \in FindMatchCalls

\* find_match_call, had a hit stored the observed name as an alias
find_match_call_LearnsAlias ==
    /\ call.fn = "find_match"
    /\ ~call.done
    /\ call' = [call EXCEPT !.done = TRUE,
                            !.result = find_match(vendors, call.user_id, call.vendor_name,
                                                  call.vkn, call.tckn)]
    /\ vendors' = IF call'.result.vendor_id = NoId THEN vendors
                  ELSE [vendors EXCEPT ![call'.result.vendor_id].aliases =
                          Append(@, [alias |-> call.vendor_name,
                                     normalized_alias |-> normalize_name(call.vendor_name)])]
    /\ UNCHANGED <<documents, ledger_entries, entry_seq, session, response, requests,
                   processed_updates, rate_limiter>>

\* find_match runs to its return (or raises): it only executes selects.
find_match_call ==
    /\ call.fn = "find_match"
    /\ ~call.done
    /\ call' = [call EXCEPT !.done = TRUE,
                            !.result = find_match(vendors, call.user_id, call.vendor_name,
                                                  call.vkn, call.tckn)]
    /\ UNCHANGED <<documents, ledger_entries, entry_seq, vendors, session, response,
                   requests, processed_updates, rate_limiter>>

ResolveNext == find_match_call

ResolveSpec == ResolveInit /\ [][ResolveNext]_vars

(***************************************************************************)
(* Name normalization on its own: normalize_name applied to a name and     *)
(* then to its own result.                                                 *)
(***************************************************************************)
MaxNameLen == 4

\* The characters names are made of: two letters of a suffix, a punctuation
\* mark and the space.
NameChars == {"a", "S", "&", " "}

Names == UNION {[1..n -> NameChars] : n \in 0..MaxNameLen}

NormalizeInit ==
    /\ documents = <<>>
    /\ ledger_entries = {}
    /\ entry_seq = 0
    /\ vendors = InitialVendors
    /\ session = [p \in Procs |-> Idle]
    /\ response = NoResponse
    /\ requests = 0
    /\ processed_updates = <<>>
    /\ rate_limiter = RateLimiter
    /\ call \in [fn : {"normalize_name"}, name : Names, results : {<< >>}]

\* normalize_name is applied to the name, and then to what it returned.
normalize_name_call ==
    /\ call.fn = "normalize_name"
    /\ Len(call.results) < 2
    /\ call' = [call EXCEPT !.results =
                  Append(@, normalize_name(IF @ = << >> THEN call.name ELSE @[Len(@)]))]
    /\ UNCHANGED <<documents, ledger_entries, entry_seq, vendors, session, response,
                   requests, processed_updates, rate_limiter>>

NormalizeNext == normalize_name_call

NormalizeSpec == NormalizeInit /\ [][NormalizeNext]_vars

(***************************************************************************)
(* services/extraction_service.py: the amounts of extract.  A Decimal with *)
(* two decimals is the one-element sequence of its hundredths; None is the *)
(* empty sequence.                                                         *)
(***************************************************************************)
NoAmount == << >>

DIGIT_CHARS == <<"0", "1", "2", "3", "4", "5", "6", "7", "8", "9">>

\* int() of a string of digits
RECURSIVE to_int(_)
to_int(s) ==
    IF s = << >> THEN 0
    ELSE 10 * to_int(SubSeq(s, 1, Len(s) - 1))
         + (CHOOSE n \in 0..9 : DIGIT_CHARS[n + 1] = s[Len(s)])

\* _parse_turkish_amount of a string the amount patterns capture (groups of
\* digits separated by dots, a comma, two digits): the hundredths of
\* Decimal(cleaned)
parse_turkish_amount(amount_str) ==
    LET cleaned == SelectSeq(amount_str, LAMBDA c : c \notin {"T", "L", " ", "."})
    IN to_int(SelectSeq(cleaned, LAMBDA c : c # ","))

\* _extract_total and _extract_tax for a text in which the patterns capture
\* amount_str (the empty string when they capture nothing): an amount is
\* returned only if it is positive.
extract_amount(amount_str) ==
    IF amount_str = << >> THEN NoAmount
    ELSE LET amount == parse_turkish_amount(amount_str)
         IN IF amount # 0 /\ amount > 0 THEN <<amount>> ELSE NoAmount

\* extract, had it computed the net from the gross alone
extract_net_FromGrossAlone(total_gross, total_tax) ==
    IF total_gross # NoAmount /\ total_gross[1] # 0
      THEN <<total_gross[1] - (IF total_tax = NoAmount THEN 0 ELSE total_tax[1])>>
      ELSE NoAmount

\* extract: "Calculate net if we have gross and tax"
extract_net(total_gross, total_tax) ==
    IF /\ total_gross # NoAmount /\ total_gross[1] # 0
       /\ total_tax # NoAmount /\ total_tax[1] # 0
      THEN <<total_gross[1] - total_tax[1]>>
      ELSE NoAmount

\* The amounts of the ExtractionResult extract returns
extract(total_str, tax_str) ==
    LET total_gross == extract_amount(total_str)
        total_tax == extract_amount(tax_str)
    IN [total_gross |-> total_gross, total_tax |-> total_tax,
        total_net |-> extract_net(total_gross, total_tax)]

\* What the amount patterns capture on the receipts tried
AmountStrings ==
    { << >>,
      <<"0", ",", "0", "0">>,
      <<"0", ",", "0", "1">>,
      <<"0", ",", "1", "0">>,
      <<"1", ",", "0", "0">>,
      <<"1", "8", ",", "0", "0">>,
      <<"9", "9", ",", "9", "9">>,
      <<"1", "0", "0", ",", "0", "0">>,
      <<"1", "1", "8", ",", "0", "0">>,
      <<"9", "9", "9", ",", "9", "9">>,
      <<"1", ".", "0", "0", "0", ",", "0", "0">>,
      <<"1", ".", "2", "3", "4", ",", "5", "6">> }

ExtractInit ==
    /\ documents = <<>>
    /\ ledger_entries = {}
    /\ entry_seq = 0
    /\ vendors = InitialVendors
    /\ session = [p \in Procs |-> Idle]
    /\ response = NoResponse
    /\ requests = 0
    /\ processed_updates = <<>>
    /\ rate_limiter = RateLimiter
    /\ call \in [fn : {"extract"}, total_str : AmountStrings, tax_str : AmountStrings,
                 done : {FALSE},
                 result : {[total_gross |-> NoAmount, total_tax |-> NoAmount,
                            total_net |-> NoAmount]}]

extract_call ==
    /\ call.fn = "extract"
    /\ ~call.done
    /\ call' = [call EXCEPT !.done = TRUE,
                            !.result = extract(call.total_str, call.tax_str)]
    /\ UNCHANGED <<documents, ledger_entries, entry_seq, vendors, session, response,
                   requests, processed_updates, rate_limiter>>

ExtractNext == extract_call

ExtractSpec == ExtractInit /\ [][ExtractNext]_vars

(***************************************************************************)
(* services/extraction_service.py: the regular expressions applied to the  *)
(* text of a receipt.  A node matches at a position of a string and yields *)
(* the positions after its matches in the order Python's backtracking      *)
(* matcher tries them: "set" is one character of a class, "seq" a          *)
(* concatenation, "alt" an alternation, "rep" a greedy repetition {lo,hi}  *)
(* (hi = Inf for none), "wb" the word boundary \b and "eol" the end $.     *)
(* A pattern is a sequence of parts, each a node that is or is not a       *)
(* capturing group.  With re.IGNORECASE the pattern is written in lower    *)
(* case and matched against the lowered string.                            *)
(***************************************************************************)
Inf == 0 - 1

Set(c) == [t |-> "set", c |-> c, g |-> <<>>, lo |-> 0, hi |-> 0]
Lit(c) == Set({c})
Cat(g) == [t |-> "seq", c |-> {}, g |-> g, lo |-> 0, hi |-> 0]
Alt(g) == [t |-> "alt", c |-> {}, g |-> g, lo |-> 0, hi |-> 0]
Rep(n, lo, hi) == [t |-> "rep", c |-> {}, g |-> <<n>>, lo |-> lo, hi |-> hi]
Boundary == [t |-> "wb", c |-> {}, g |-> <<>>, lo |-> 0, hi |-> 0]
Eol == [t |-> "eol", c |-> {}, g |-> <<>>, lo |-> 0, hi |-> 0]
\* a letter of a pattern compiled with re.IGNORECASE: the letters i, I,
\* dotless i and dotted I match one another
Letter(c) ==
    IF c \in {"i", "dotless-i", "dotted-I"} THEN Set({"i", "dotless-i", "dotted-I"})
    ELSE Lit(c)
\* a literal word
Word(w) == Cat([i \in 1..Len(w) |-> Letter(w[i])])

Digit == Set(DIGITS)
Space == Set({" ", "\t", "\n"})

RECURSIVE re_ends(_, _, _)
RECURSIVE re_ends_seq(_, _, _, _)
RECURSIVE re_ends_seq_each(_, _, _, _, _)
RECURSIVE re_ends_alt(_, _, _, _)
RECURSIVE re_ends_rep(_, _, _, _)
RECURSIVE re_ends_rep_each(_, _, _, _, _, _)
re_ends(n, s, i) ==
    CASE n.t = "set" -> IF i <= Len(s) /\ s[i] \in n.c THEN <<i + 1>> ELSE <<>>
      [] n.t = "seq" -> re_ends_seq(n.g, 1, s, i)
      [] n.t = "alt" -> re_ends_alt(n.g, 1, s, i)
      [] n.t = "rep" -> re_ends_rep(n, s, i, 0)
      [] n.t = "wb" ->
           LET before == i > 1 /\ i - 1 <= Len(s) /\ IsWord(s[i - 1])
               after == i <= Len(s) /\ IsWord(s[i])
           IN IF before # after THEN <<i>> ELSE <<>>
      [] n.t = "eol" -> IF i = Len(s) + 1 THEN <<i>> ELSE <<>>

re_ends_seq(g, k, s, i) ==
    IF k > Len(g) THEN <<i>>
    ELSE re_ends_seq_each(g, k + 1, s, re_ends(g[k], s, i), 1)

\* the ends of g[k..] started at each of the positions es[j..], in order
re_ends_seq_each(g, k, s, es, j) ==
    IF j > Len(es) THEN <<>>
    ELSE re_ends_seq(g, k, s, es[j]) \o re_ends_seq_each(g, k, s, es, j + 1)

re_ends_alt(g, k, s, i) ==
    IF k > Len(g) THEN <<>>
    ELSE re_ends(g[k], s, i) \o re_ends_alt(g, k + 1, s, i)

\* count repetitions are matched and the next starts at i: one more
\* repetition is tried first, then none.
re_ends_rep(n, s, i, count) ==
    (IF n.hi = Inf \/ count < n.hi
       THEN re_ends_rep_each(n, s, i, re_ends(n.g[1], s, i), 1, count + 1)
       ELSE <<>>)
    \o (IF count >= n.lo THEN <<i>> ELSE <<>>)

\* a repetition that matched the empty string at i is not repeated
re_ends_rep_each(n, s, i, es, j, count) ==
    IF j > Len(es) THEN <<>>
    ELSE (IF es[j] > i THEN re_ends_rep(n, s, es[j], count) ELSE <<>>)
         \o re_ends_rep_each(n, s, i, es, j + 1, count)

Part(n, capture) == [n |-> n, capture |-> capture]
Plain(n) == Part(n, FALSE)
Group(n) == Part(n, TRUE)

NoMatchAt == [start |-> 0, end |-> 0, groups |-> <<>>]

\* pattern.match at position i: the start and the end of the match and the
\* captured groups, or NoMatchAt
RECURSIVE re_match_at(_, _, _, _)
RECURSIVE re_match_first(_, _, _, _, _, _)
re_match_at(pat, k, s, i) ==
    IF k > Len(pat) THEN [start |-> i, end |-> i, groups |-> <<>>]
    ELSE re_match_first(pat, k, s, i, re_ends(pat[k].n, s, i), 1)

re_match_first(pat, k, s, i, es, j) ==
    IF j > Len(es) THEN NoMatchAt
    ELSE LET rest == re_match_at(pat, k + 1, s, es[j])
         IN IF rest.end # 0
              THEN [start |-> i, end |-> rest.end,
                    groups |-> (IF pat[k].capture
                                  THEN <<SubSeq(s, i, es[j] - 1)>> ELSE <<>>)
                               \o rest.groups]
              ELSE re_match_first(pat, k, s, i, es, j + 1)

\* re.search: the leftmost match from position i on
RECURSIVE re_search_from(_, _, _)
re_search_from(pat, s, i) ==
    IF i > Len(s) + 1 THEN NoMatchAt
    ELSE LET m == re_match_at(pat, 1, s, i)
         IN IF m.end # 0 THEN m ELSE re_search_from(pat, s, i + 1)

re_search(pat, s) == re_search_from(pat, s, 1)

\* re.findall for a pattern of one group: the captures of the leftmost
\* matches that do not overlap
RECURSIVE re_findall_from(_, _, _)
re_findall_from(pat, s, i) ==
    LET m == re_search_from(pat, s, i)
    IN IF m.end = 0 THEN <<>>
       ELSE <<m.groups[1]>>
            \o re_findall_from(pat, s, IF m.end > m.start THEN m.end ELSE m.end + 1)

re_findall(pat, s) == re_findall_from(pat, s, 1)

(***************************************************************************)
(* services/extraction_service.py: the amounts extract finds in a text.    *)
(* The letters o-umlaut, u-umlaut, dotless i and the lira sign are written *)
(* as the one-character strings of those names.                            *)
(***************************************************************************)
\* \d{1,3}(?:\.\d{3})*,\d{2}
AmountCore ==
    Cat(<<Rep(Digit, 1, 3), Rep(Cat(<<Lit("."), Rep(Digit, 3, 3)>>), 0, Inf),
          Lit(","), Rep(Digit, 2, 2)>>)

AMOUNT_PATTERNS ==
    << <<Plain(Rep(Lit("*"), 0, 1)), Plain(Rep(Space, 0, Inf)), Group(AmountCore)>>,
       <<Group(AmountCore), Plain(Rep(Space, 0, Inf)),
         Plain(Alt(<<Word(<<"t", "l">>), Word(<<"t", "r", "y">>), Lit("lira-sign")>>))>>,
       <<Group(AmountCore)>> >>

TOTAL_KEYWORDS ==
    << <<"t", "o", "p", "l", "a", "m">>,
       <<"g", "e", "n", "e", "l", " ", "t", "o", "p", "l", "a", "m">>,
       <<"o-umlaut", "d", "e", "n", "e", "c", "e", "k", " ", "t", "u", "t", "a", "r">>,
       <<"t", "u", "t", "a", "r">>,
       <<"n", "e", "t", " ", "t", "u", "t", "a", "r">>,
       <<"b", "r", "u-umlaut", "t", " ", "t", "u", "t", "a", "r">>,
       <<"t", "o", "t", "a", "l">>,
       <<"g", "r", "a", "n", "d", " ", "t", "o", "t", "a", "l">>,
       <<"y", "e", "k", "u", "n">>,
       <<"o-umlaut", "d", "e", "n", "e", "n">>,
       <<"n", "a", "k", "i", "t">>,
       <<"k", "r", "e", "d", "i", " ", "k", "a", "r", "t", "dotless-i">> >>

TAX_KEYWORDS ==
    << <<"k", "d", "v">>,
       <<"k", ".", "d", ".", "v">>,
       <<"v", "e", "r", "g", "i">>,
       <<"t", "a", "x">>,
       <<"k", "d", "v", " ", "t", "o", "p", "l", "a", "m">>,
       <<"k", "d", "v", " ", "t", "u", "t", "a", "r", "dotless-i">>,
       <<"%", "8">>,
       <<"%", "1", "0">>,
       <<"%", "1", "8">>,
       <<"%", "2", "0">> >>

\* r'%\s*\d+' and r'%\s*\d+\s*[:\s]*(\d{1,3}(?:\.\d{3})*,\d{2})'
TaxRate == <<Plain(Lit("%")), Plain(Rep(Space, 0, Inf)), Plain(Rep(Digit, 1, Inf))>>

TaxRateAmount ==
    TaxRate \o <<Plain(Rep(Space, 0, Inf)),
                 Plain(Rep(Set({":", " ", "\t", "\n"}), 0, Inf)), Group(AmountCore)>>

\* sub in s
str_in(sub, s) ==
    \E i \in 1..(Len(s) - Len(sub) + 1) : SubSeq(s, i, i + Len(sub) - 1) = sub

\* s.split('\n')
RECURSIVE split_lines(_)
split_lines(s) ==
    IF \A i \in 1..Len(s) : s[i] # "\n" THEN <<s>>
    ELSE LET i == CHOOSE i \in 1..Len(s) :
                    s[i] = "\n" /\ \A j \in 1..(i - 1) : s[j] # "\n"
         IN <<SubSeq(s, 1, i - 1)>> \o split_lines(SubSeq(s, i + 1, Len(s)))

\* "for pattern in self.AMOUNT_PATTERNS": the first positive amount a
\* pattern from p on captures in the line
RECURSIVE amount_in_line(_, _)
amount_in_line(line, p) ==
    IF p > Len(AMOUNT_PATTERNS) THEN NoAmount
    ELSE LET match == re_search(AMOUNT_PATTERNS[p], lower(line))
             amount == IF match.end # 0 THEN extract_amount(match.groups[1])
                       ELSE NoAmount
         IN IF amount # NoAmount THEN amount ELSE amount_in_line(line, p + 1)

\* "for line in lines" of _extract_total for one keyword
RECURSIVE total_in_lines(_, _, _)
total_in_lines(keyword, lines, l) ==
    IF l > Len(lines) THEN NoAmount
    ELSE LET amount == IF str_in(keyword, lower(lines[l]))
                         THEN amount_in_line(lines[l], 1) ELSE NoAmount
         IN IF amount # NoAmount THEN amount
            ELSE total_in_lines(keyword, lines, l + 1)

\* "for keyword in self.TOTAL_KEYWORDS"
RECURSIVE total_by_keyword(_, _)
total_by_keyword(lines, k) ==
    IF k > Len(TOTAL_KEYWORDS) THEN NoAmount
    ELSE LET amount == total_in_lines(TOTAL_KEYWORDS[k], lines, 1)
         IN IF amount # NoAmount THEN amount ELSE total_by_keyword(lines, k + 1)

\* "Fallback: find the largest amount": the positive amounts the patterns
\* find anywhere in the text
all_amounts(text) ==
    UNION {{extract_amount(m)[1] : m \in {m \in Range(re_findall(AMOUNT_PATTERNS[p], text)) :
                                            extract_amount(m) # NoAmount}}
           : p \in 1..Len(AMOUNT_PATTERNS)}

\* _extract_total
extract_total(text, lines) ==
    LET amount == total_by_keyword(lines, 1)
    IN IF amount # NoAmount THEN amount
       ELSE IF all_amounts(text) # {} THEN <<Max(all_amounts(text))>>
       ELSE NoAmount

\* the tax amount of one line that holds a tax keyword
tax_in_line(line) ==
    IF re_search(TaxRate, line).end # 0
      THEN LET match == re_search(TaxRateAmount, line)
           IN IF match.end # 0 THEN extract_amount(match.groups[1]) ELSE NoAmount
      ELSE amount_in_line(line, 1)

RECURSIVE tax_in_lines(_, _, _)
tax_in_lines(keyword, lines, l) ==
    IF l > Len(lines) THEN NoAmount
    ELSE LET amount == IF str_in(keyword, lower(lines[l]))
                         THEN tax_in_line(lines[l]) ELSE NoAmount
         IN IF amount # NoAmount THEN amount
            ELSE tax_in_lines(keyword, lines, l + 1)

\* _extract_tax
RECURSIVE extract_tax(_, _)
extract_tax(lines, k) ==
    IF k > Len(TAX_KEYWORDS) THEN NoAmount
    ELSE LET amount == tax_in_lines(TAX_KEYWORDS[k], lines, 1)
         IN IF amount # NoAmount THEN amount ELSE extract_tax(lines, k + 1)

(***************************************************************************)
(* services/extraction_service.py: the other fields extract finds.  A      *)
(* field that was not found is the empty sequence.                         *)
(***************************************************************************)
\* str.upper() on one character
upper_char(c) ==
    IF c \in Range(LOWER) THEN UPPER[CHOOSE i \in 1..Len(LOWER) : LOWER[i] = c]
    ELSE IF c = "dotless-i" THEN "I"
    ELSE c

upper(s) == [i \in 1..Len(s) |-> upper_char(s[i])]

\* str.strip()
RECURSIVE strip(_)
strip(s) ==
    IF s = <<>> THEN s
    ELSE IF IsSpace(s[1]) THEN strip(Tail(s))
    ELSE IF IsSpace(s[Len(s)]) THEN strip(SubSeq(s, 1, Len(s) - 1))
    ELSE s

Spaces == Rep(Space, 0, Inf)
Maybe(n) == Rep(n, 0, 1)
ColonsSpaces == Rep(Set({":", " ", "\t", "\n"}), 0, Inf)

\* r'^[\d\s\-\./]+$'
NumericLine == <<Plain(Rep(Set(DIGITS \cup {" ", "\t", "\n", "-", ".", "/"}), 1, Inf)),
                 Plain(Eol)>>

ADDRESS_WORDS ==
    << <<"s", "o", "k", ".">>, <<"c", "a", "d", ".">>, <<"m", "a", "h", ".">>, <<"n", "o", ":">>, <<"a", "p", "t">> >>

\* _extract_vendor_name from line l on
RECURSIVE extract_vendor_name(_, _)
extract_vendor_name(lines, l) ==
    IF l > Len(lines) \/ l > 5 THEN NoName
    ELSE LET line == strip(lines[l])
         IN IF \/ line = <<>>
               \/ re_match_at(NumericLine, 1, line, 1).end # 0
               \/ Len(line) < 3
               \/ \E k \in 1..Len(ADDRESS_WORDS) : str_in(ADDRESS_WORDS[k], lower(line))
              THEN extract_vendor_name(lines, l + 1)
              ELSE line

NoOrNumarasi == Maybe(Alt(<<Word(<<"n", "o">>), Word(<<"n", "u", "m", "a", "r", "a", "s", "i">>)>>))

VKN_PATTERN ==
    <<Plain(Alt(<<Word(<<"v", "k", "n">>),
                  Cat(<<Lit("v"), Lit("."), Lit("k"), Lit("."), Lit("n")>>),
                  Cat(<<Word(<<"v", "e", "r", "g", "i">>), Spaces, Maybe(Word(<<"k", "i", "m", "l", "i", "k">>)), Spaces, NoOrNumarasi>>)>>)),
      Plain(ColonsSpaces), Group(Rep(Digit, 10, 11))>>

TCKN_PATTERN ==
    <<Plain(Alt(<<Word(<<"t", "c", "k", "n">>),
                  Cat(<<Lit("t"), Lit("."), Lit("c"), Maybe(Lit(".")),
                        Maybe(Cat(<<Spaces, Word(<<"k", "i", "m", "l", "i", "k">>)>>)), Spaces, NoOrNumarasi>>)>>)),
      Plain(ColonsSpaces), Group(Rep(Digit, 11, 11))>>

\* r'\b(\d{10,11})\b'
TaxNumber == <<Plain(Boundary), Group(Rep(Digit, 10, 11)), Plain(Boundary)>>

TAX_WORDS == << <<"v", "e", "r", "g", "i">>, <<"v", "k", "n">>, <<"d", "a", "i", "r", "e", "s", "i">> >>

\* str.find: the position of the first occurrence of sub in s, or 0
str_find(sub, s) ==
    IF str_in(sub, s)
      THEN CHOOSE i \in 1..Len(s) :
             /\ i + Len(sub) - 1 <= Len(s)
             /\ SubSeq(s, i, i + Len(sub) - 1) = sub
             /\ \A j \in 1..(i - 1) : SubSeq(s, j, j + Len(sub) - 1) # sub
      ELSE 0

\* "Try to find standalone 10-11 digit number near tax-related words"
RECURSIVE vkn_near_tax_word(_, _)
vkn_near_tax_word(text, k) ==
    IF k > Len(TAX_WORDS) THEN <<>>
    ELSE LET idx == str_find(TAX_WORDS[k], lower(text))
             nearby == SubSeq(text, idx, Min({Len(text), idx + 49}))
             numbers == IF idx # 0 THEN re_findall(TaxNumber, nearby) ELSE <<>>
         IN IF numbers # <<>> THEN numbers[1] ELSE vkn_near_tax_word(text, k + 1)

\* _extract_vkn of the upper-cased text
extract_vkn(text) ==
    LET match == re_search(VKN_PATTERN, lower(text))
    IN IF match.end # 0 THEN match.groups[1] ELSE vkn_near_tax_word(text, 1)

\* _extract_tckn of the upper-cased text
extract_tckn(text) ==
    LET match == re_search(TCKN_PATTERN, lower(text))
    IN IF match.end # 0 THEN match.groups[1] ELSE <<>>

DocNoChars == Rep(Set((Range(LOWER) \ {"sc"}) \cup DIGITS \cup {"-", "dotless-i", "dotted-I"}),
                  1, Inf)

DOC_NO_PATTERNS ==
    << <<Plain(Alt(<<Word(<<"f", "i", "sc">>), Word(<<"b", "e", "l", "g", "e">>), Word(<<"f", "a", "t", "u", "r", "a">>)>>)), Plain(Spaces),
         Plain(Alt(<<Word(<<"n", "o">>), Cat(<<Word(<<"n", "u", "m", "a", "r", "a", "s">>), Maybe(Letter("i"))>>)>>)),
         Plain(ColonsSpaces), Group(DocNoChars)>>,
       <<Plain(Alt(<<Word(<<"n", "o">>), Word(<<"n", "u", "m", "a", "r", "a">>)>>)), Plain(ColonsSpaces), Group(DocNoChars)>> >>

\* _extract_doc_no of the upper-cased text
RECURSIVE extract_doc_no(_, _)
extract_doc_no(text, k) ==
    IF k > Len(DOC_NO_PATTERNS) THEN <<>>
    ELSE LET match == re_search(DOC_NO_PATTERNS[k], lower(text))
         IN IF match.end # 0 THEN SubSeq(text, match.end - Len(match.groups[1]), match.end - 1)
            ELSE extract_doc_no(text, k + 1)

TURKISH_MONTHS ==
    << <<"o", "c", "a", "k">>,
       <<"sc", "u", "b", "a", "t">>,
       <<"m", "a", "r", "t">>,
       <<"n", "i", "s", "a", "n">>,
       <<"m", "a", "y", "dotless-i", "s">>,
       <<"h", "a", "z", "i", "r", "a", "n">>,
       <<"t", "e", "m", "m", "u", "z">>,
       <<"a", "g-breve", "u", "s", "t", "o", "s">>,
       <<"e", "y", "l", "u-umlaut", "l">>,
       <<"e", "k", "i", "m">>,
       <<"k", "a", "s", "dotless-i", "m">>,
       <<"a", "r", "a", "l", "dotless-i", "k">> >>

DaySep == Set({".", "/"})
Year == Cat(<<Lit("2"), Lit("0"), Rep(Digit, 2, 2)>>)

DATE_PATTERNS ==
    << <<Group(Rep(Digit, 1, 2)), Plain(DaySep), Group(Rep(Digit, 1, 2)), Plain(DaySep),
         Group(Year)>>,
       <<Group(Rep(Digit, 1, 2)), Plain(Lit("-")), Group(Rep(Digit, 1, 2)), Plain(Lit("-")),
         Group(Year)>>,
       <<Group(Year), Plain(DaySep), Group(Rep(Digit, 1, 2)), Plain(DaySep),
         Group(Rep(Digit, 1, 2))>>,
       <<Group(Rep(Digit, 1, 2)), Plain(Rep(Space, 1, Inf)),
         Group(Alt([m \in 1..Len(TURKISH_MONTHS) |-> Word(TURKISH_MONTHS[m])])),
         Plain(Rep(Space, 1, Inf)), Group(Year)>> >>

NoDate == [year |-> 0, month |-> 0, day |-> 0]

DaysInMonth(year, month) ==
    IF month = 2
      THEN (IF year % 4 = 0 /\ (year % 100 # 0 \/ year % 400 = 0) THEN 29 ELSE 28)
      ELSE IF month \in {4, 6, 9, 11} THEN 30 ELSE 31

\* datetime.date(year, month, day), or NoDate where it raises ValueError
date(year, month, day) ==
    IF month \in 1..12 /\ day \in 1..DaysInMonth(year, month) /\ year \in 1..9999
      THEN [year |-> year, month |-> month, day |-> day]
      ELSE NoDate

\* int() of a string, or 0 - 1 where it raises ValueError
int(s) == IF s # <<>> /\ \A i \in 1..Len(s) : s[i] \in DIGITS THEN to_int(s) ELSE 0 - 1

\* the date of the groups of a match
date_of_groups(groups) ==
    IF \E m \in 1..Len(TURKISH_MONTHS) : TURKISH_MONTHS[m] = lower(groups[2])
      THEN date(int(groups[3]),
                CHOOSE m \in 1..Len(TURKISH_MONTHS) : TURKISH_MONTHS[m] = lower(groups[2]),
                int(groups[1]))
    ELSE IF Len(groups[1]) = 4
      THEN date(int(groups[1]), int(groups[2]), int(groups[3]))
      ELSE date(int(groups[3]), int(groups[2]), int(groups[1]))

\* _extract_date without its handler of ValueError: the first pattern that
\* matches decides, and a match that is no date is an error
RECURSIVE extract_date_NoExcept(_, _)
extract_date_NoExcept(text, k) ==
    IF k > Len(DATE_PATTERNS) THEN [error |-> None, doc_date |-> NoDate]
    ELSE LET match == re_search(DATE_PATTERNS[k], lower(text))
             found == IF match.end # 0 THEN date_of_groups(match.groups) ELSE NoDate
         IN IF match.end # 0
              THEN [error |-> IF found = NoDate THEN "ValueError" ELSE None,
                    doc_date |-> found]
              ELSE extract_date_NoExcept(text, k + 1)

\* _extract_date: a pattern whose match is no date is passed over
\* ("except (ValueError, IndexError): continue")
RECURSIVE extract_date(_, _)
extract_date(text, k) ==
    IF k > Len(DATE_PATTERNS) THEN [error |-> None, doc_date |-> NoDate]
    ELSE LET match == re_search(DATE_PATTERNS[k], lower(text))
             found == IF match.end # 0 THEN date_of_groups(match.groups) ELSE NoDate
         IN IF found # NoDate THEN [error |-> None, doc_date |-> found]
            ELSE extract_date(text, k + 1)

(***************************************************************************)
(* services/extraction_service.py: extract applied to the text of a        *)
(* receipt.  The confidence is in hundredths.                              *)
(***************************************************************************)
ExtractionResult(vendor_name, vendor_vkn, vendor_tckn, doc_date, total_gross, total_tax, total_net, doc_no, confidence) ==
    [error |-> None, vendor_name |-> vendor_name, vendor_vkn |-> vendor_vkn,
     vendor_tckn |-> vendor_tckn, doc_date |-> doc_date, total_gross |-> total_gross,
     total_tax |-> total_tax, total_net |-> total_net, doc_no |-> doc_no,
     confidence |-> confidence]

\* ExtractionResult()
EmptyResult == ExtractionResult(NoName, <<>>, <<>>, NoDate, NoAmount, NoAmount, NoAmount, <<>>, 0)

\* an exception that leaves extract
Raised(error) == [EmptyResult EXCEPT !.error = error]

\* field_weights, in hundredths
field_weights ==
    [vendor_name |-> 15, vkn |-> 15, tckn |-> 10, doc_date |-> 15, total_gross |-> 25,
     total_tax |-> 15, doc_no |-> 5]

\* ExtractionService.extract
extract_text(ocr_text) ==
    IF ocr_text = <<>> THEN EmptyResult
    ELSE LET text == upper(ocr_text)
             text_lower == lower(ocr_text)
             lines == split_lines(ocr_text)
             vendor_name == extract_vendor_name(lines, 1)
             vkn == extract_vkn(text)
             tckn == extract_tckn(text)
             dated == extract_date(ocr_text, 1)
             total_gross == extract_total(text_lower, lines)
             total_tax == extract_tax(lines, 1)
             doc_no == extract_doc_no(text, 1)
             confidence ==
                 (IF vendor_name # NoName THEN field_weights.vendor_name ELSE 0)
               + (IF vkn # <<>> THEN field_weights.vkn ELSE 0)
               + (IF tckn # <<>> THEN field_weights.tckn ELSE 0)
               + (IF dated.doc_date # NoDate THEN field_weights.doc_date ELSE 0)
               + (IF total_gross # NoAmount THEN field_weights.total_gross ELSE 0)
               + (IF total_tax # NoAmount THEN field_weights.total_tax ELSE 0)
               + (IF doc_no # <<>> THEN field_weights.doc_no ELSE 0)
         IN IF dated.error # None THEN Raised(dated.error)
            ELSE ExtractionResult(vendor_name, vkn, tckn, dated.doc_date, total_gross,
                                  total_tax, extract_net(total_gross, total_tax), doc_no,
                                  confidence)

MaxLines == 3

\* The lines of the receipts tried
ReceiptLines ==
    { <<"T", "O", "P", "L", "A", "M", " ", "1", "0", "0", ",", "0", "0">>,
      <<"T", "U", "T", "A", "R", " ", "5", "0", ",", "0", "0">>,
      <<"E", "L", "M", "A", " ", "5", "0", "0", ",", "0", "0">>,
      <<"K", "D", "V", " ", "1", "8", ",", "0", "0">>,
      <<>>,
      <<"1", "2", " ", "3", "4">>,
      <<"4", "5", ".", "1", "3", ".", "2", "0", "2", "6">>,
      <<"M", "i", "g", "r", "o", "s", " ", "1", "2", ".", "0", "5", ".", "2", "0", "2", "6">> }

\* '\n'.join(lines)
RECURSIVE join_lines(_)
join_lines(lines) ==
    IF Len(lines) = 0 THEN <<>>
    ELSE IF Len(lines) = 1 THEN lines[1]
    ELSE lines[1] \o <<"\n">> \o join_lines(Tail(lines))

Receipts == {join_lines(lines) : lines \in UNION {[1..n -> ReceiptLines] : n \in 1..MaxLines}}

TextInit ==
    /\ documents = <<>>
    /\ ledger_entries = {}
    /\ entry_seq = 0
    /\ vendors = InitialVendors
    /\ session = [p \in Procs |-> Idle]
    /\ response = NoResponse
    /\ requests = 0
    /\ processed_updates = <<>>
    /\ rate_limiter = RateLimiter
    /\ call \in [fn : {"extract_text"}, ocr_text : Receipts, done : {FALSE},
                 result : {EmptyResult}]

extract_text_call ==
    /\ call.fn = "extract_text"
    /\ ~call.done
    /\ call' = [call EXCEPT !.done = TRUE, !.result = extract_text(call.ocr_text)]
    /\ UNCHANGED <<documents, ledger_entries, entry_seq, vendors, session, response,
                   requests, processed_updates, rate_limiter>>

TextNext == extract_text_call

TextSpec == TextInit /\ [][TextNext]_vars

(***************************************************************************)
(* routers/telegram.py: the webhook and its cache of processed updates.    *)
(* The OrderedDict is the sequence of its items, oldest first; the value   *)
(* time.time() of an item is a clock that every insertion advances.        *)
(***************************************************************************)
MAX_CACHE_SIZE == 1000

\* update_id in _processed_updates
Cached(cache, update_id) == \E k \in 1..Len(cache) : cache[k].update_id = update_id

\* time.time() at a call
Now(cache) == IF cache = <<>> THEN 1 ELSE cache[Len(cache)].time + 1

\* "while len(_processed_updates) > MAX_CACHE_SIZE: popitem(last=False)"
RECURSIVE trim(_)
trim(cache) == IF Len(cache) > MAX_CACHE_SIZE THEN trim(Tail(cache)) ELSE cache

\* is_duplicate_update, had it not looked the id up: an id that is cached
\* keeps its place and is handled again
is_duplicate_update_NoLookup(cache, update_id) ==
    [duplicate |-> FALSE,
     processed_updates |->
        IF Cached(cache, update_id)
          THEN [k \in 1..Len(cache) |->
                  IF cache[k].update_id = update_id
                    THEN [update_id |-> update_id, time |-> Now(cache)] ELSE cache[k]]
          ELSE trim(Append(cache, [update_id |-> update_id, time |-> Now(cache)]))]

\* is_duplicate_update, had a hit moved the id to the newest end
is_duplicate_update_HitRefreshes(cache, update_id) ==
    IF Cached(cache, update_id)
      THEN [duplicate |-> TRUE,
            processed_updates |->
               SelectSeq(cache, LAMBDA item : item.update_id # update_id)
               \o SelectSeq(cache, LAMBDA item : item.update_id = update_id)]
      ELSE [duplicate |-> FALSE,
            processed_updates |->
               trim(Append(cache, [update_id |-> update_id, time |-> Now(cache)]))]

\* is_duplicate_update: what it returns and the cache it leaves
is_duplicate_update(cache, update_id) ==
    IF Cached(cache, update_id)
      THEN [duplicate |-> TRUE, processed_updates |-> cache]
      ELSE [duplicate |-> FALSE,
            processed_updates |->
               trim(Append(cache, [update_id |-> update_id, time |-> Now(cache)]))]

\* POST /telegram/webhook with a valid secret: the duplicate check, then the
\* message or the callback query of the update is handled
telegram_webhook(p, update) ==
    /\ Start(p)
    /\ call' = [fn |-> "telegram_webhook", update_id |-> update.update_id]
    /\ UNCHANGED rate_limiter
    /\ LET seen == is_duplicate_update(processed_updates, update.update_id)
       IN /\ processed_updates' = seen.processed_updates
          /\ IF seen.duplicate THEN Answer(p, "webhook", NoId, "skipped")
             ELSE CASE update.kind = "photo" ->
                         photo_message(p, TG_USER_ID, update.extraction)
                    [] update.kind = "confirm" -> callback_confirm(p, update.document_id)
                    [] update.kind = "cancel" -> callback_cancel(p, update.document_id)
                    [] update.kind = "text" -> Answer(p, "webhook", NoId, "message")

NumUpdateIds == 2

\* The updates Telegram delivers, each possibly more than once
Updates ==
    [update_id : 1..NumUpdateIds, kind : {"photo"}, extraction : {Extractions[1], Extractions[4]},
     document_id : {NoId}]
    \cup [update_id : 1..NumUpdateIds, kind : {"confirm", "cancel"},
          extraction : {Extractions[1]}, document_id : DocIds]
    \cup [update_id : 1..NumUpdateIds, kind : {"text"}, extraction : {Extractions[1]},
          document_id : {NoId}]

WebhookInit ==
    /\ documents = <<>>
    /\ ledger_entries = {}
    /\ entry_seq = 0
    /\ vendors = InitialVendors
    /\ session = [p \in Procs |-> Idle]
    /\ response = NoResponse
    /\ requests = 0
    /\ processed_updates = <<>>
    /\ rate_limiter = RateLimiter
    /\ call = [fn |-> "telegram_webhook", update_id |-> 0]

WebhookNext ==
    \E p \in Procs :
        \/ \E update \in Updates : telegram_webhook(p, update)
        \/ handle_callback_confirm_commit(p)
        \/ handle_callback_cancel_commit(p)

WebhookSpec == WebhookInit /\ [][WebhookNext]_vars

(***************************************************************************)
(* is_duplicate_update called on its own, up to the size of the cache and  *)
(* beyond.  Telegram numbers its updates upwards; it delivers the next     *)
(* one, or once more the first one, the oldest or the newest one cached.   *)
(***************************************************************************)
ExtraUpdates == 2

MaxUpdateId == MAX_CACHE_SIZE + ExtraUpdates

Delivered(cache) ==
    IF cache = <<>> THEN {1}
    ELSE {1, cache[1].update_id, cache[Len(cache)].update_id}
         \cup {id \in {cache[Len(cache)].time + 1} : id <= MaxUpdateId}

DedupInit ==
    /\ documents = <<>>
    /\ ledger_entries = {}
    /\ entry_seq = 0
    /\ vendors = InitialVendors
    /\ session = [p \in Procs |-> Idle]
    /\ response = NoResponse
    /\ requests = 0
    /\ processed_updates = <<>>
    /\ rate_limiter = RateLimiter
    /\ call = [fn |-> "is_duplicate_update", update_id |-> 0, duplicate |-> FALSE]

is_duplicate_update_call ==
    /\ call.fn = "is_duplicate_update"
    /\ \E update_id \in Delivered(processed_updates) :
         LET seen == is_duplicate_update(processed_updates, update_id)
         IN /\ processed_updates' = seen.processed_updates
            /\ call' = [call EXCEPT !.update_id = update_id, !.duplicate = seen.duplicate]
    /\ UNCHANGED <<documents, ledger_entries, entry_seq, vendors, session, response,
                   requests, rate_limiter>>

DedupNext == is_duplicate_update_call

DedupSpec == DedupInit /\ [][DedupNext]_vars

(***************************************************************************)
(* middleware/rate_limiter.py: RateLimiter.is_allowed for one client key.  *)
(* Time is counted in ticks of the clock, TicksPerSecond to the second.    *)
(* is_allowed reads the clock once for `now`, and _clean_old_entries reads *)
(* it again at each of its three calls; between two reads the clock may    *)
(* have advanced by up to MaxSkew ticks.                                   *)
(***************************************************************************)
TicksPerSecond == 1000
MaxSkew == 1
MaxCalls == 5

\* The RateLimitConfig the limiter is constructed with
burst_limit == 2
requests_per_minute == 3
requests_per_hour == 4

\* The max_age arguments 1, 60 and 3600 of _clean_old_entries
Second == 1 * TicksPerSecond
Minute == 60 * TicksPerSecond
Hour == 3600 * TicksPerSecond

\* _clean_old_entries when its time.time() returns `now`
clean_old_entries(window, now, max_age) ==
    SelectSeq(window, LAMBDA t : now - t < max_age)

\* What is_allowed returns and the windows it leaves
Verdict(allowed, limit, second, minute, hour) ==
    [allowed |-> allowed, limit |-> limit,
     rate_limiter |-> [second_windows |-> second, minute_windows |-> minute,
                       hour_windows |-> hour]]

\* RateLimiter.is_allowed under its lock: `now` is the clock it read, now1,
\* now2 and now3 the clock the three cleanings read
is_allowed(limiter, now, now1, now2, now3) ==
    LET second == clean_old_entries(limiter.second_windows, now1, Second)
        minute == clean_old_entries(limiter.minute_windows, now2, Minute)
        hour == clean_old_entries(limiter.hour_windows, now3, Hour)
    IN IF Len(second) >= burst_limit THEN Verdict(FALSE, "burst", second, minute, hour)
       ELSE IF Len(minute) >= requests_per_minute
         THEN Verdict(FALSE, "minute", second, minute, hour)
       ELSE IF Len(hour) >= requests_per_hour
         THEN Verdict(FALSE, "hour", second, minute, hour)
       ELSE Verdict(TRUE, None, Append(second, now), Append(minute, now),
                    Append(hour, now))

\* How long after the last call the client sends its next request: at once,
\* or when a second, a minute or an hour has passed or is about to pass
Delays == {0, Second - 1, Second, Minute - 1, Minute, Hour - 1}

LimiterInit ==
    /\ documents = <<>>
    /\ ledger_entries = {}
    /\ entry_seq = 0
    /\ vendors = InitialVendors
    /\ session = [p \in Procs |-> Idle]
    /\ response = NoResponse
    /\ requests = 0
    /\ processed_updates = <<>>
    /\ rate_limiter = RateLimiter
    /\ call = [fn |-> "is_allowed", calls |-> 0, now |-> 0, clock |-> 0,
               allowed |-> FALSE, limit |-> None, granted |-> <<>>]

\* One request of the client passes rate_limit_middleware
is_allowed_call ==
    /\ call.fn = "is_allowed"
    /\ call.calls < MaxCalls
    /\ \E delay \in Delays, skew1, skew2, skew3 \in 0..MaxSkew :
         /\ skew1 <= skew2
         /\ skew2 <= skew3
         /\ LET now == call.clock + delay
                verdict == is_allowed(rate_limiter, now, now + skew1, now + skew2,
                                      now + skew3)
            IN /\ rate_limiter' = verdict.rate_limiter
               /\ call' = [fn |-> "is_allowed", calls |-> call.calls + 1, now |-> now,
                           clock |-> now + skew3, allowed |-> verdict.allowed,
                           limit |-> verdict.limit,
                           granted |-> IF verdict.allowed THEN Append(call.granted, now)
                                       ELSE call.granted]
    /\ UNCHANGED <<documents, ledger_entries, entry_seq, vendors, session, response,
                   requests, processed_updates>>

LimiterNext == is_allowed_call

LimiterSpec == LimiterInit /\ [][LimiterNext]_vars

(***************************************************************************)
(* The properties of the document lifecycle and of the ledger.             *)
(***************************************************************************)
ConfirmOps == {"confirm", "tg_confirm"}
CancelOps == {"cancel", "tg_cancel"}

\* Handler p commits in this step what it assigned for an operation of ops.
Commits(p, ops) ==
    /\ session[p].pc = "commit"
    /\ session[p].op \in ops
    /\ session'[p].pc = "idle"

\* A request of ops for document d is received in this step and answered at
\* once, or handler p goes on to commit it.
Rejects(ops, d) ==
    /\ requests' = requests + 1
    /\ session' = session
    /\ response'.op \in ops
    /\ response'.document_id = d

Proceeds(p, ops, d) ==
    /\ requests' = requests + 1
    /\ session[p].pc = "idle"
    /\ session'[p].pc = "commit"
    /\ session'[p].op \in ops
    /\ session'[p].document_id = d

\* C1: a document's status only ever changes from draft to posted or from
\* draft to cancelled: a posted or cancelled document keeps its status and
\* no document re-enters draft.
C1_StatusOnlyLeavesDraft ==
    [][\A d \in 1..Len(documents) :
          documents'[d].status # documents[d].status
            => /\ documents[d].status = DRAFT
               /\ documents'[d].status \in {POSTED, CANCELLED}]_vars

\* C2: in every reachable state at most one ledger entry references any
\* given document.
C2_OneEntryPerDocument ==
    \A e1, e2 \in ledger_entries :
        (e1.document_id # NoId /\ e1.document_id = e2.document_id) => e1 = e2

\* C2's case: an entry references a document and a further create_entry
\* naming that document was just refused by the database.
C2_Witness ==
    /\ response.op = "create_entry"
    /\ response.code = "db_error"
    /\ \E e \in ledger_entries : e.document_id = response.document_id

\* C3: a successful confirm posts the document and creates the ledger entry
\* referencing it in one step: a document just posted by confirm is
\* referenced by a ledger entry, and no ledger entry references a document
\* that is still draft.
C3_ConfirmCreatesEntryAtomically ==
    /\ (/\ response.op \in ConfirmOps
        /\ response.code = "ok"
        /\ documents[response.document_id].status = POSTED)
         => \E e \in ledger_entries : e.document_id = response.document_id
    /\ \A e \in ledger_entries :
         e.document_id # NoId => documents[e.document_id].status # DRAFT

\* C4: a confirm request (HTTP or Telegram callback) for a document whose
\* status is not draft is answered with a state error, and the documents and
\* the ledger entries stay as they were.
C4_ConfirmOfNonDraftRejected ==
    [][\A d \in 1..Len(documents) :
          (/\ documents[d].status # DRAFT
           /\ (Rejects(ConfirmOps, d) \/ \E p \in Procs : Proceeds(p, ConfirmOps, d)))
            => /\ Rejects(ConfirmOps, d)
               /\ response'.code = "state_error"
               /\ documents' = documents
               /\ ledger_entries' = ledger_entries]_vars

\* C4's case: a confirm of a posted or cancelled document was just answered
\* with a state error.
C4_Witness ==
    /\ response.op \in ConfirmOps
    /\ response.code = "state_error"
    /\ response.document_id \in 1..Len(documents)
    /\ documents[response.document_id].status \in {POSTED, CANCELLED}
    /\ \A p \in Procs : session[p].pc = "idle"

\* C5: a cancel (HTTP or Telegram callback) of a document the handler found
\* in a status other than draft fails with a state error and leaves the
\* document's status as it was.
C5_CancelOfNonDraftRejected ==
    [][\A p \in Procs :
          (Commits(p, CancelOps) /\ session[p].seen_status # DRAFT)
            => /\ response'.code = "state_error"
               /\ documents'[session[p].document_id].status
                    = documents[session[p].document_id].status]_vars

\* C6: update never changes a document's status, and an update of a document
\* found posted or cancelled is not accepted and changes nothing.
C6_UpdateOnlyDraftsKeepsStatus ==
    [][\A p \in Procs :
          Commits(p, {"update"})
            => /\ documents'[session[p].document_id].status
                    = documents[session[p].document_id].status
               /\ session[p].seen_status # DRAFT
                    => (documents' = documents /\ response'.code # "ok")]_vars

\* C7: a confirm of a draft document that a ledger entry already references
\* is rejected: the document stays draft and the ledger entries stay as they
\* were.
C7_ConfirmOfReferencedDraftRejected ==
    [][\A p \in Procs :
          (/\ Commits(p, ConfirmOps)
           /\ documents[session[p].document_id].status = DRAFT
           /\ \E e \in ledger_entries : e.document_id = session[p].document_id)
            => /\ response'.code # "ok"
               /\ documents'[session[p].document_id].status = DRAFT
               /\ ledger_entries' = ledger_entries]_vars

\* C8: in every reachable state a ledger entry whose document reference is
\* set references a posted document, never a draft or cancelled one.
C8_EntriesReferencePostedDocuments ==
    \A e \in ledger_entries :
        e.document_id # NoId => documents[e.document_id].status = POSTED

\* C9: a successful confirm leaves the vendor reference, the date, the gross
\* amount and the tax amount as the draft had them wherever the caller
\* supplied no override (the body's field is None).
C9_ConfirmKeepsFieldsNotOverridden ==
    [][\A p \in Procs :
          (Commits(p, {"confirm"}) /\ response'.code = "ok")
            => LET d == session[p].document_id
                   dirty == session[p].dirty
               IN /\ ("vendor_id" \in DOMAIN dirty /\ dirty.vendor_id = NoId)
                       => documents'[d].vendor_id = documents[d].vendor_id
                  /\ \A f \in {"doc_date", "total_gross", "total_tax"} :
                       (f \in DOMAIN dirty /\ dirty[f] = None)
                         => documents'[d][f] = documents[d][f]]_vars

\* C10: the document an upload or a Telegram photo creates is a draft whose
\* vendor reference is the matched vendor when the match is not new and is
\* absent when the match is new.
C10_DraftLinksMatchedVendor ==
    [][Len(documents') = Len(documents) + 1
         => LET document == documents'[Len(documents')]
                match == response'.match
            IN /\ response'.op \in {"upload", "photo"}
               /\ document.status = DRAFT
               /\ ~match.is_new
                    => (document.vendor_id = match.vendor_id /\ match.vendor_id # NoId)
               /\ match.is_new => document.vendor_id = NoId]_vars

\* C10's case: an upload whose vendor is new and a photo whose vendor was
\* matched have each created a draft.
C10_Witness ==
    /\ Len(documents) = 2
    /\ documents[1].user_id = DEFAULT_USER_ID
    /\ documents[1].vendor_id = NoId
    /\ documents[1].status = DRAFT
    /\ documents[2].user_id = TG_USER_ID
    /\ documents[2].status = DRAFT
    /\ response.op = "photo"
    /\ ~response.match.is_new
    /\ documents[2].vendor_id = response.match.vendor_id

(***************************************************************************)
(* The properties of vendor resolution.                                    *)
(***************************************************************************)
\* find_match has returned a VendorMatch for the call.
Returned == call.fn = "find_match" /\ call.done /\ call.result.error = None

\* The vendors of the call's user.
Owned == {v \in VendorIds(vendors) : vendors[v].user_id = call.user_id}

VknHits == {v \in Owned : call.vkn # None /\ vendors[v].vkn = call.vkn}
TcknHits == {v \in Owned : call.tckn # None /\ vendors[v].tckn = call.tckn}
ExactHits ==
    {v \in Owned : call.vendor_name # NoName
                   /\ vendors[v].normalized_name = normalize_name(call.vendor_name)}
AliasHits ==
    {v \in Owned : call.vendor_name # NoName
                   /\ \E k \in 1..Len(vendors[v].aliases) :
                        vendors[v].aliases[k].normalized_alias
                          = normalize_name(call.vendor_name)}

\* C13: every VendorMatch find_match returns has is_new true exactly when its
\* vendor id is absent.
C13_IsNewIffNoVendor ==
    Returned => (call.result.is_new <=> call.result.vendor_id = NoId)

\* C13's case: find_match returned a fuzzy hit, which names a vendor and is
\* not new.
C13_Witness ==
    /\ Returned
    /\ call.result.match_type = "fuzzy"
    /\ ~call.result.is_new
    /\ call.result.vendor_id \in Owned

\* C14: find_match returns the first tier that hits, in the order VKN, TCKN,
\* exact name, alias, fuzzy: a VKN hit is returned as a VKN match with
\* similarity 1.0 whatever the name and the TCKN match, a TCKN hit likewise
\* when the VKN misses, an exact hit before an alias hit, an alias hit before
\* a fuzzy one.
C14_FirstTierWins ==
    Returned =>
      LET r == call.result
      IN IF VknHits # {}
           THEN r.match_type = "vkn" /\ r.vendor_id \in VknHits /\ r.confidence = 100
         ELSE IF TcknHits # {}
           THEN r.match_type = "tckn" /\ r.vendor_id \in TcknHits /\ r.confidence = 100
         ELSE IF ExactHits # {}
           THEN r.match_type = "exact" /\ r.vendor_id \in ExactHits
         ELSE IF AliasHits # {}
           THEN r.match_type = "alias" /\ r.vendor_id \in AliasHits
         ELSE r.match_type \in {"fuzzy", None}

\* C14's case: the VKN is A101's while the name is exactly Migros'; the
\* result is A101 by VKN.
C14_Witness ==
    /\ Returned
    /\ call.vkn = "1122334455"
    /\ call.vendor_name = Migros
    /\ ExactHits # {}
    /\ call.result.match_type = "vkn"
    /\ call.result.vendor_id \in VknHits
    /\ call.result.vendor_id \notin ExactHits

\* C15: a tax-id, exact or alias match has similarity at least 0.9; a fuzzy
\* match has similarity at least 0.7 and strictly below that of an exact
\* match (0.95).
C15_SimilarityBands ==
    Returned =>
      /\ call.result.match_type \in {"vkn", "tckn", "exact", "alias"}
           => call.result.confidence >= 90
      /\ call.result.match_type = "fuzzy"
           => (call.result.confidence >= FUZZY_THRESHOLD /\ call.result.confidence < 95)

\* C16: called without a name and with tax ids that match no vendor,
\* find_match returns no match (is_new, no vendor, similarity 0.0) whatever
\* the catalog holds.
C16_NoNameNoMatch ==
    (/\ call.fn = "find_match" /\ call.done
     /\ call.vendor_name = NoName /\ VknHits = {} /\ TcknHits = {})
      => call.result = VendorMatch(NoId, NoName, None, 0, TRUE)

\* C16's case: no name, a VKN no vendor has, and a catalog holding a vendor
\* whose normalized name is empty.
C16_Witness ==
    /\ call.fn = "find_match" /\ call.done
    /\ call.vendor_name = NoName
    /\ call.vkn = "9999999999"
    /\ VknHits = {} /\ TcknHits = {}
    /\ \E v \in Owned : vendors[v].normalized_name = <<>>
    /\ call.result.is_new

\* C17: find_match leaves the catalog as it was: the vendors, their fields
\* and their aliases.
C17_FindMatchReadOnly ==
    [][(call.fn = "find_match" /\ ~call.done /\ call'.done) => vendors' = vendors]_vars

\* C17's case: find_match returned a hit by a name that is not yet an alias
\* of the vendor.
C17_Witness ==
    /\ Returned
    /\ call.result.match_type = "fuzzy"
    /\ call.vendor_name = Migroz
    /\ vendors = InitialVendors

(***************************************************************************)
(* The properties of name normalization.                                   *)
(***************************************************************************)
\* C19: normalize_name is idempotent: applied to its own result it returns
\* that result unchanged.
C19_NormalizeIdempotent ==
    (call.fn = "normalize_name" /\ Len(call.results) = 2)
      => call.results[2] = call.results[1]

(***************************************************************************)
(* The properties of extraction.                                           *)
(***************************************************************************)
\* C20: in every record extract returns the net amount is present exactly
\* when the gross and the tax are both present, and is then the gross minus
\* the tax to the hundredth.
C20_NetIsGrossMinusTax ==
    (call.fn = "extract" /\ call.done) =>
      LET r == call.result
      IN /\ r.total_net # NoAmount <=> (r.total_gross # NoAmount /\ r.total_tax # NoAmount)
         /\ r.total_net # NoAmount => r.total_net[1] + r.total_tax[1] = r.total_gross[1]

\* C20's case: the gross 1.234,56 and the tax 99,99 were extracted and the
\* net is 1134.57.
C20_Witness ==
    /\ call.fn = "extract" /\ call.done
    /\ call.result.total_gross = <<123456>>
    /\ call.result.total_tax = <<9999>>
    /\ call.result.total_net = <<113457>>

\* C21: in every record extract returns each of the gross, the tax and the
\* net amount is absent or a value that is not negative, also when the
\* extracted tax exceeds the extracted gross; an amount that was not found is
\* absent, not zero.
C21_AmountsAbsentOrNonNegative ==
    (call.fn = "extract" /\ call.done) =>
      LET r == call.result
      IN /\ \A a \in {r.total_gross, r.total_tax, r.total_net} :
              a # NoAmount => a[1] >= 0
         /\ call.total_str = << >> => r.total_gross = NoAmount
         /\ call.tax_str = << >> => r.total_tax = NoAmount

\* extract has returned from a text
Extracted == call.fn = "extract_text" /\ call.done

\* Nothing in the text can be parsed as a field.
NothingParsed(ocr_text) ==
    /\ extract_vendor_name(split_lines(ocr_text), 1) = NoName
    /\ re_search(VKN_PATTERN, lower(ocr_text)).end = 0
    /\ vkn_near_tax_word(upper(ocr_text), 1) = <<>>
    /\ re_search(TCKN_PATTERN, lower(ocr_text)).end = 0
    /\ \A k \in 1..Len(DATE_PATTERNS) :
         LET match == re_search(DATE_PATTERNS[k], lower(ocr_text))
         IN match.end # 0 => date_of_groups(match.groups) = NoDate
    /\ \A p \in 1..Len(AMOUNT_PATTERNS) :
         \A amount \in Range(re_findall(AMOUNT_PATTERNS[p], lower(ocr_text))) :
           parse_turkish_amount(amount) = 0
    /\ \A k \in 1..Len(DOC_NO_PATTERNS) : re_search(DOC_NO_PATTERNS[k], lower(ocr_text)).end = 0

TotalLines(ocr_text) ==
    LET lines == split_lines(ocr_text)
    IN {l \in 1..Len(lines) :
          /\ \E k \in 1..Len(TOTAL_KEYWORDS) : str_in(TOTAL_KEYWORDS[k], lower(lines[l]))
          /\ amount_in_line(lines[l], 1) # NoAmount}

\* C23: when lines of the text hold a total keyword and a positive amount,
\* the gross amount extract returns is the amount of the earliest of them in
\* the order of the text, whichever total keyword each holds; a line without
\* a total keyword does not win over them.
C23_EarliestTotalLineWins ==
    (Extracted /\ TotalLines(call.ocr_text) # {}) =>
      call.result.total_gross =
        amount_in_line(split_lines(call.ocr_text)[Min(TotalLines(call.ocr_text))], 1)

(***************************************************************************)
(* The properties of the vendor catalog.                                   *)
(***************************************************************************)
\* Handler p starts a create_or_get_vendor call in this step, and ends one.
StartsCreateOrGet(p) ==
    /\ session[p].pc = "idle"
    /\ session'[p].pc = "commit"
    /\ session'[p].op = "create_or_get_vendor"

EndsCreateOrGet(p) == Commits(p, {"create_or_get_vendor"})

\* C11: concurrent create_or_get_vendor calls for the same user and the same
\* unseen merchant never both create a vendor: a call that ends in creating a
\* vendor adds the only vendor of that user with that normalized name.
C11_NoDuplicateCreation ==
    [][\A p \in Procs :
          (EndsCreateOrGet(p) /\ Len(vendors') = Len(vendors) + 1)
            => \A v \in VendorIds(vendors) :
                 ~(/\ vendors[v].user_id = vendors'[Len(vendors')].user_id
                   /\ vendors[v].normalized_name = vendors'[Len(vendors')].normalized_name)]_vars

\* C12: in every catalog reached through create_vendor, update_vendor and
\* create_or_get_vendor no two vendors of the same user have the same
\* normalized_name.
C12_NormalizedNameUniquePerUser ==
    \A v, w \in VendorIds(vendors) :
        (/\ vendors[v].user_id = vendors[w].user_id
         /\ vendors[v].normalized_name = vendors[w].normalized_name) => v = w

\* C18: on a match create_or_get_vendor adds the observed name as an alias
\* exactly when its normalized form differs from the vendor's normalized_name
\* and from every normalized alias the vendor has when the call looks; what
\* it then stores is appended, and no alias of any vendor is removed or
\* rewritten.
C18_AliasLearnedOnlyWhenNew ==
    [][\A p \in Procs :
          /\ (StartsCreateOrGet(p) /\ session'[p].dirty.vendor_id # NoId)
               => LET pending == session'[p].dirty
                      vendor == vendors[pending.vendor_id]
                      normalized == normalize_name(pending.add_alias_from)
                      differs ==
                        /\ pending.add_alias_from # NoName
                        /\ normalized # vendor.normalized_name
                        /\ \A k \in 1..Len(vendor.aliases) :
                             vendor.aliases[k].normalized_alias # normalized
                  IN /\ pending.new_vendor = <<>>
                     /\ pending.new_alias =
                          IF differs
                            THEN <<[alias |-> pending.add_alias_from,
                                    normalized_alias |-> normalized]>>
                            ELSE <<>>
          /\ EndsCreateOrGet(p)
               => \A v \in VendorIds(vendors) :
                    vendors'[v].aliases =
                      IF v = session[p].dirty.vendor_id
                        THEN vendors[v].aliases \o session[p].dirty.new_alias
                        ELSE vendors[v].aliases]_vars

\* C18's case: a call has stored the alias "Migroz" for Migros, and a later
\* call with the same observed name finds nothing to add.
C18_Witness ==
    \E p \in Procs :
        /\ session[p].pc = "commit"
        /\ session[p].op = "create_or_get_vendor"
        /\ session[p].dirty.vendor_id = 1
        /\ session[p].dirty.add_alias_from = Migroz
        /\ session[p].dirty.new_alias = <<>>
        /\ Len(vendors[1].aliases) = 2
        /\ vendors[1].aliases[2].normalized_alias = normalize_name(Migroz)
        /\ response.op = "create_or_get_vendor"
        /\ response.code = "alias_added"

(***************************************************************************)
(* The properties of the Telegram webhook's duplicate check.               *)
(***************************************************************************)
\* A step of telegram_webhook: a request was received for an update
WebhookDelivery == requests' = requests + 1 /\ call'.fn = "telegram_webhook"

\* C24: a delivery of an update whose id is in the cache is answered as a
\* skipped duplicate and touches no document, no pending transition, no
\* ledger entry and no vendor; a delivery of an id that is not in the cache
\* is handled, and the id is in the cache after it.
C24_OnlyFirstDeliveryHandled ==
    [][WebhookDelivery =>
         IF Cached(processed_updates, call'.update_id)
           THEN /\ response'.op = "webhook"
                /\ response'.code = "skipped"
                /\ UNCHANGED <<documents, session, ledger_entries, entry_seq, vendors,
                               processed_updates>>
           ELSE /\ response'.code # "skipped" \/ response' = response
                /\ Cached(processed_updates', call'.update_id)
                /\ \/ response'.op \in {"photo", "tg_confirm", "tg_cancel", "webhook"}
                   \/ \E p \in Procs : session'[p].pc = "commit"]_vars

\* C24's case: update 1 carried a photo and made a document; it was delivered
\* again and skipped.
C24_Witness ==
    /\ call.fn = "telegram_webhook"
    /\ call.update_id = 1
    /\ Len(processed_updates) = 1
    /\ processed_updates[1].update_id = 1
    /\ Len(documents) = 1
    /\ response.op = "webhook"
    /\ response.code = "skipped"

\* C25: the cache never holds more than MAX_CACHE_SIZE ids; a call with a
\* cached id leaves the cache as it is, position included; a call with a new
\* id puts it at the newest end and, when the cache was full, drops exactly
\* the id that was inserted earliest.
C25_CacheBoundedOldestEvicted ==
    /\ [](Len(processed_updates) <= MAX_CACHE_SIZE)
    /\ [][LET cache == processed_updates
              size == Len(cache)
              update_id == call'.update_id
          IN IF Cached(cache, update_id)
               THEN call'.duplicate /\ processed_updates' = cache
               ELSE /\ ~call'.duplicate
                    /\ processed_updates'[Len(processed_updates')].update_id = update_id
                    /\ IF size < MAX_CACHE_SIZE
                         THEN SubSeq(processed_updates', 1, size) = cache
                         ELSE /\ Len(processed_updates') = MAX_CACHE_SIZE
                              /\ \A k \in 2..size : cache[k].time > cache[1].time
                              /\ ~Cached(processed_updates', cache[1].update_id)
                              /\ SubSeq(processed_updates', 1, size - 1) = Tail(cache)]_vars

\* C25's case: the cache is full and an insertion has evicted id 1, the
\* earliest inserted; the oldest id left is 2, the second inserted.
C25_Witness ==
    /\ call.fn = "is_duplicate_update"
    /\ Len(processed_updates) = MAX_CACHE_SIZE
    /\ processed_updates[1].update_id = 2
    /\ processed_updates[1].time = 2
    /\ ~call.duplicate

(***************************************************************************)
(* The properties of the catalog's handlers together with find_match.      *)
(***************************************************************************)
\* C26: the key create_vendor stores for a name and the key add_vendor_alias
\* stores for an alias are the keys VendorMatcher.normalize_name gives them,
\* so find_match by the name of a vendor just created matches in the exact
\* tier, and by an alias just added in the alias tier or, when a vendor has
\* that name, in the exact tier (a lookup that finds several rows aside).
C26_RouterKeyIsMatcherKey ==
    [][requests' = requests + 1 =>
         /\ Len(vendors') = Len(vendors) + 1 =>
              LET vendor == vendors'[Len(vendors')]
                  match == find_match(vendors', vendor.user_id, vendor.display_name,
                                      None, None)
              IN /\ vendor.normalized_name = normalize_name(vendor.display_name)
                 /\ match.error = None => match.match_type = "exact"
         /\ \A v \in VendorIds(vendors) :
              Len(vendors'[v].aliases) = Len(vendors[v].aliases) + 1 =>
                LET added == vendors'[v].aliases[Len(vendors'[v].aliases)]
                    match == find_match(vendors', vendors[v].user_id, added.alias,
                                        None, None)
                IN /\ added.normalized_alias = normalize_name(added.alias)
                   /\ match.error = None => match.match_type \in {"exact", "alias"}]_vars

\* C27: in every state of the catalog find_match returns for every user and
\* every VKN, TCKN, vendor name and alias the catalog holds: none of its
\* scalar_one_or_none lookups finds several rows.
C27_FindMatchNeverAmbiguous ==
    \A v, w \in VendorIds(vendors) :
        LET user_id == vendors[v].user_id
        IN /\ find_match(vendors, user_id, NoName, vendors[w].vkn, None).error = None
           /\ find_match(vendors, user_id, NoName, None, vendors[w].tckn).error = None
           /\ find_match(vendors, user_id, vendors[w].display_name, None, None).error = None
           /\ \A k \in 1..Len(vendors[w].aliases) :
                find_match(vendors, user_id, vendors[w].aliases[k].alias, None, None).error
                  = None

(***************************************************************************)
(* Confirm and cancel of one draft by two handlers at once.                *)
(***************************************************************************)
\* C28: of a confirm and a cancel (HTTP or Telegram callback) that both found
\* the document draft, only one takes effect: the one that commits after the
\* other has posted or cancelled the document does not report success and
\* leaves the status the other one set.
C28_ConfirmCancelExclusive ==
    [][\A p \in Procs :
          LET d == session[p].document_id
          IN (/\ session[p].seen_status = DRAFT
              /\ \/ Commits(p, ConfirmOps) /\ documents[d].status = CANCELLED
                 \/ Commits(p, CancelOps) /\ documents[d].status = POSTED)
               => /\ response'.code # "ok"
                  /\ documents'[d].status = documents[d].status]_vars

\* C29: in every reachable state a document that references a vendor
\* references a vendor of the user who owns the document.
C29_VendorOwnedByDocumentUser ==
    \A d \in 1..Len(documents) :
        documents[d].vendor_id # NoId
          => /\ documents[d].vendor_id \in VendorIds(vendors)
             /\ vendors[documents[d].vendor_id].user_id = documents[d].user_id

(***************************************************************************)
(* The properties of the rate limiter.                                     *)
(***************************************************************************)
\* How many of the requests allowed so far were allowed in the max_age ticks
\* that end with the allowed request k
GrantedWithin(k, max_age) ==
    Cardinality({j \in 1..k : call.granted[k] - call.granted[j] < max_age})

\* C30: of the requests is_allowed has allowed for a key, no more than
\* burst_limit lie within any second, no more than requests_per_minute within
\* any minute and no more than requests_per_hour within any hour; a request
\* that is denied is recorded in no window.
C30_AllowedWithinLimits ==
    /\ [](\A k \in 1..Len(call.granted) :
            /\ GrantedWithin(k, Second) <= burst_limit
            /\ GrantedWithin(k, Minute) <= requests_per_minute
            /\ GrantedWithin(k, Hour) <= requests_per_hour)
    /\ [][~call'.allowed =>
            /\ Len(rate_limiter'.second_windows) <= Len(rate_limiter.second_windows)
            /\ Len(rate_limiter'.minute_windows) <= Len(rate_limiter.minute_windows)
            /\ Len(rate_limiter'.hour_windows) <= Len(rate_limiter.hour_windows)]_vars

=============================================================================
